---- MODULE Spec2Model ----
(***************************************************************************)
(* A model of the storefront insights fetcher: ShopifyScraper.scrape_store *)
(* (src/scraper.py) with its field extractors and the catalog pagination,  *)
(* CompetitorAnalyzer.find_competitors and analyze_competitors_for_brand   *)
(* (src/competitor_analysis.py), the scrape_form handler (src/routes.py)   *)
(* and DatabaseService with its tables (src/db_service.py,                 *)
(* src/db_models.py).                                                      *)
(*                                                                         *)
(* Specifications: Spec (one run of scrape_store), SpecCompetitors (one    *)
(* call of find_competitors), SpecForm (one request to scrape_form),       *)
(* SpecBatch (concurrent competitor batches on one database), SpecSave     *)
(* (concurrent calls of save_brand_data).                                  *)
(*                                                                         *)
(* The remote storefront is the variable `site`: everything it would       *)
(* answer to the requests of one extraction run.  It is chosen in Init and *)
(* never changes; the actions are the steps of scrape_store, each the      *)
(* whole extractor it calls.  Text is modelled by its length (after        *)
(* strip()), an optional value as a sequence of length 0 or 1.             *)
(***************************************************************************)
EXTENDS Integers, Sequences, FiniteSets, TLC

VARIABLES
    site,           \* what the storefront serves (fixed during a run)
    input_url,      \* the URL handed to ShopifyScraper(...)
    pc,             \* position inside scrape_store
    brand_context,  \* the BrandContext being assembled
    page,           \* _extract_product_catalog: the page index of the loop
    products,       \* _extract_product_catalog: the products accumulated
    requests,       \* every request issued so far, in order
    result,         \* what scrape_store returned: <<>> before it returns
    web,            \* find_competitors: what the search provider and the hosts answer
    source,         \* find_competitors: website_url, the source brand's URL
    max_competitors,\* find_competitors: the requested maximum
    cpc,            \* position inside find_competitors
    query,          \* the index of the next search query
    competitors,    \* the candidates collected so far
    cleaned,        \* what _clean_and_validate_urls kept
    clog,           \* the requests and delays of find_competitors, in order
    cresult,        \* what find_competitors returned: <<>> before it returns
    form,           \* scrape_form: the submitted form
    fpc,            \* position inside scrape_form
    fresponse,      \* what scrape_form answered: <<>> before it returns
    brands,         \* the table brands: row i has the id i
    child_rows,     \* the rows of the seven child tables, in insertion order
    relations,      \* the table competitors
    jobs,           \* the table competitor_jobs: row i has the id i
    threads,        \* the concurrent calls: batches, or calls of save_brand_data
    faults          \* how many database operations have raised so far

scrapeVars == <<site, input_url, pc, brand_context, page, products, requests, result>>
compVars == <<web, source, max_competitors, cpc, query, competitors, cleaned, clog,
              cresult>>
formVars == <<form, fpc, fresponse>>
dbVars == <<brands, child_rows, relations, jobs>>
batchVars == <<threads, faults>>
otherVars == <<formVars, dbVars, batchVars>>
vars == <<scrapeVars, compVars, otherVars>>

----------------------------------------------------------------------------
(* Helpers *)

None == <<>>
Some(v) == <<v>>
IsSome(o) == Len(o) = 1
Get(o) == o[1]

Min(a, b) == IF a < b THEN a ELSE b

Range(s) == {s[i] : i \in 1..Len(s)}

Take(s, n) == SubSeq(s, 1, Min(n, Len(s)))

\* s[:n] of a text modelled by its length
Truncate(len, n) == Min(len, n)

RECURSIVE Concat(_)
Concat(ss) == IF ss = <<>> THEN <<>> ELSE Head(ss) \o Concat(Tail(ss))

----------------------------------------------------------------------------
(* Bounds of the model *)

\* full pages of products the catalog endpoint serves at most
MaxFullPages == 3
\* distinct product links on the homepage at most
MaxHeroLinks == 6
\* question/answer pairs on a FAQ page at most
MaxFaqPairs == 12
\* anchors with a category keyword on the homepage at most
MaxLinks == 12
\* anchors in the freely combined anchor lists at most
MaxAnchors == 2
\* the largest max_competitors asked of find_competitors
MaxRequested == 3
\* result links on one search page at most
MaxResults == 2
\* database operations that raise during one behaviour at most
MaxFaults == 2
\* calls of save_brand_data in one behaviour at most
MaxSaves == 3

----------------------------------------------------------------------------
(* models.py *)

\* The URL of a storefront: its scheme, its host and whether it ends in a
\* slash.
Hosts == {"shop.example"}
Urls == [scheme : {"https"}, host : Hosts, slash : BOOLEAN]

\* str.rstrip('/') of ShopifyScraper.__init__
BaseUrl(u) == [u EXCEPT !.slash = FALSE]

\* BrandContext(website_url=..., extracted_at=...) with the defaults of the
\* model class.
BrandContext(url, status, err) ==
    [ website_url          |-> url,
      brand_name           |-> None,
      product_catalog      |-> <<>>,
      hero_products        |-> <<>>,
      privacy_policy       |-> None,
      return_refund_policy |-> None,
      faqs                 |-> <<>>,
      social_handles       |-> <<>>,
      contact_info         |-> [emails |-> {}, phones |-> {}, addresses |-> {}],
      about_brand          |-> None,
      important_links      |-> <<>>,
      extracted_at         |-> "now",
      extraction_status    |-> status,
      error_message        |-> err ]

----------------------------------------------------------------------------
(* _extract_product_catalog: the products.json endpoint and the parsing of *)
(* one entry                                                               *)

\* limit=250 of the request, and the length test that ends the loop
PageSize == 250

\* One variant of a product entry: "available" is "true", "false" or
\* "absent" (the key is missing), price and compare_at_price are optional.
Variants ==
    [available : {"true", "false", "absent"},
     price : {None, Some("10.00")},
     compare_at_price : {None, Some("12.00")}]

V(a, p, c) == [available |-> a, price |-> p, compare_at_price |-> c]

\* The variant lists the entries of the model carry.
VariantLists ==
    { <<>>,
      <<V("true", Some("10.00"), None)>>,
      <<V("false", Some("10.00"), Some("12.00"))>>,
      <<V("absent", None, None)>>,
      <<V("false", Some("10.00"), None), V("true", None, Some("12.00"))>>,
      <<V("false", None, None), V("absent", Some("10.00"), None)>> }

\* One entry of the "products" array.  kind:
\*   "object"        a JSON object with a title and a variant list
\*   "title_null"    an object whose title is null (the model class rejects it)
\*   "variants_null" an object whose "variants" is null (any() over None raises)
\*   "scalar"        not an object at all (null, a string): it has no .get
EntryKinds == {"object", "title_null", "variants_null", "scalar"}

Entry(kind, vs) == [kind |-> kind, variants |-> vs]

Filler == Entry("object", <<V("true", Some("10.00"), None)>>)

SpecialEntries ==
    {Entry("object", vs) : vs \in VariantLists}
        \cup {Entry(k, <<>>) : k \in EntryKinds \ {"object"}}

\* The endpoint: `full` pages of PageSize entries, then what `last` says:
\*   "short"   a page of k < PageSize entries (k = 0: an empty array)
\*   "missing" a body without a "products" key
\*   "error"   an HTTP error status, a transport error or a body that is no JSON
\*   "endless" there is no last page: every page index has PageSize entries
\* Every entry is Filler except the one at (sp_page, sp_idx), which is `special`.
LastKinds == {"short", "missing", "error", "endless"}

PageLen(ep, p) ==
    IF p <= ep.full \/ ep.last = "endless" THEN PageSize
    ELSE IF ep.last = "short" THEN ep.k ELSE 0

\* The entry at place i of page p
EntryAt(ep, p, i) == IF p = ep.sp_page /\ i = ep.sp_idx THEN ep.special ELSE Filler

PageEntries(ep, p) == [i \in 1..PageLen(ep, p) |-> EntryAt(ep, p, i)]

\* response of GET {base}/products.json?page=p&limit=250
\*   [ok |-> FALSE]              raise_for_status() or response.json() raises
\*   [ok |-> TRUE, products ...] the parsed body; products is None when the
\*                               key is missing
Response(ep, p) ==
    IF p > ep.full /\ ep.last = "error" THEN [ok |-> FALSE, products |-> None]
    ELSE IF p > ep.full /\ ep.last = "missing" THEN [ok |-> TRUE, products |-> None]
    ELSE [ok |-> TRUE, products |-> Some(PageEntries(ep, p))]

\* AnyAvailable with a missing "available" key counted as available
AnyAvailable_DefaultTrue(vs) ==
    \E i \in 1..Len(vs) : vs[i].available \in {"true", "absent"}

\* any(v.get('available', False) for v in variants)
AnyAvailable(vs) == \E i \in 1..Len(vs) : vs[i].available = "true"

\* Does building the Product from this entry raise inside the inner try?
ParseRaises(e) == e.kind # "object"

\* Does the inner except handler itself raise?  It evaluates
\* product_data.get('id', 'unknown') for the log line, which a non-object
\* entry does not have: the exception leaves the for loop and the while loop.
HandlerRaises(e) == e.kind = "scalar"

\* Product(...) of a well-formed entry, then price and compare_at_price from
\* the first variant when there is one.
ParseProduct(e, id) ==
    [ id               |-> id,
      available        |-> AnyAvailable(e.variants),
      price            |-> IF e.variants # <<>> THEN e.variants[1].price ELSE None,
      compare_at_price |-> IF e.variants # <<>> THEN e.variants[1].compare_at_price
                           ELSE None,
      variants         |-> e.variants ]

\* The index of the first entry of the page whose handling escapes the for
\* loop, Len + 1 when there is none.
FirstEscape(entries) ==
    LET esc == {i \in 1..Len(entries) : HandlerRaises(entries[i])}
    IN IF esc = {} THEN Len(entries) + 1
       ELSE CHOOSE i \in esc : \A j \in esc : i <= j

\* The for loop over one page: the products appended, in order, up to the
\* first escaping entry; a malformed entry is skipped.
PageProducts(entries, p) ==
    LET upto == FirstEscape(entries) - 1
        ids  == SelectSeq([i \in 1..upto |-> i],
                          LAMBDA i : ~ParseRaises(entries[i]))
    IN [n \in 1..Len(ids) |-> ParseProduct(entries[ids[n]], <<p, ids[n]>>)]

\* CatalogStep going on only after a page longer than PageSize
CatalogStep_StopAtFull(resp, p, acc) ==
    IF ~resp.ok THEN [products |-> acc, done |-> TRUE]
    ELSE IF resp.products = None \/ Get(resp.products) = <<>>
        THEN [products |-> acc, done |-> TRUE]
    ELSE [ products |-> acc \o PageProducts(Get(resp.products), p),
           done     |-> Len(Get(resp.products)) <= PageSize ]

\* One iteration of the while loop on the answer to the request for page p:
\* the products after it and whether the loop (and the extractor) ends here.
CatalogStep(resp, p, acc) ==
    IF ~resp.ok THEN [products |-> acc, done |-> TRUE]
    ELSE IF resp.products = None \/ Get(resp.products) = <<>>
        THEN [products |-> acc, done |-> TRUE]
    ELSE LET entries == Get(resp.products)
         IN [ products |-> acc \o PageProducts(entries, p),
              done     |-> \/ FirstEscape(entries) <= Len(entries)
                           \/ Len(entries) < PageSize ]

----------------------------------------------------------------------------
(* _extract_brand_name *)

\* The elements the six selectors find on the homepage, in selector order
\* ('title', three logo images, 'h1.site-title', '.brand-name'): None when
\* select_one finds nothing.  An element has a tag name, an alt attribute
\* (images) and a text.  A title text is a core and a boilerplate suffix.
TitleSuffixes == {"", " - Online Store", " | Shopify", " Store"}

Strip(s) == IF s = " " THEN "" ELSE s

TitleElem(core, suffix) ==
    [name |-> "title", alt |-> None, text |-> core, suffix |-> suffix]
ImgElem(alt) == [name |-> "img", alt |-> alt, text |-> "", suffix |-> ""]
TextElem(text) == [name |-> "h1", alt |-> None, text |-> text, suffix |-> ""]

\* urlparse(base_url).netloc.replace('www.', '').split('.')[0].title()
DomainFallback(url) == IF url.host = "shop.example" THEN "Shop" ELSE "Brand"

\* What the first element found yields.  An image with a non-empty alt gives
\* its alt; a title gives its text with the suffixes removed; anything else,
\* an image without alt included, gives its text.
ElementName(el) ==
    IF el.name = "img" /\ IsSome(el.alt) /\ Get(el.alt) # "" THEN Strip(Get(el.alt))
    ELSE IF el.name = "title" THEN Strip(el.text)
    ELSE Strip(el.text)

ExtractBrandName(elems, base) ==
    LET found == {i \in 1..Len(elems) : IsSome(elems[i])}
    IN IF found = {} THEN Some(DomainFallback(base))
       ELSE LET i == CHOOSE k \in found : \A j \in found : k <= j
            IN Some(ElementName(Get(elems[i])))

----------------------------------------------------------------------------
(* Pages and anchors *)

\* An href of an anchor: the path it resolves to under the base URL (a
\* relative href and the absolute form of the same address resolve alike),
\* and whether urljoin(base_url, href) raises on it (ValueError "Invalid IPv6
\* URL" for an href such as "http://[").
Href(path, abs, bad) == [path |-> path, abs |-> abs, bad |-> bad]

\* urljoin(self.base_url, href) of an href that does not make it raise
Resolve(h) == h.path

\* An anchor of the homepage: its href, its text, and the indices of the
\* search terms of the extractor at hand that its text matches.
Anchor(href, text, match) == [href |-> href, text |-> text, match |-> match]

\* A page of the storefront as the extractors see it:
\*   ok      _get_page_soup returns a document (no transport error, status ok)
\*   sels    per content selector, in selector order, the length of the text
\*           of the element it finds, None when it finds none
\*   traf    the length of what the general text extraction returns for a
\*           second GET of the page, None when that yields nothing
\*   title   the product title the title selectors find (product pages)
\*   qa      the question/answer candidates the FAQ patterns find
\*   emails, phones   what the contact regular expressions find in its text
Page(ok, sels, traf) ==
    [ok |-> ok, sels |-> sels, traf |-> traf, title |-> None, qa |-> <<>>,
     emails |-> <<>>, phones |-> <<>>]

NoSels == <<None, None, None, None, None>>
NotFound == Page(FALSE, NoSels, None)

\* site.pages maps the paths the storefront serves; any other path is a 404.
PageOf(s, path) == IF path \in DOMAIN s.pages THEN s.pages[path] ELSE NotFound

\* The in-page candidates of an extractor: for each search term in turn,
\* the hrefs of the anchors whose text matches it, in document order, each
\* resolved with urljoin.  raised: some urljoin raised (the extractor's outer
\* except clause is entered before any candidate is fetched).
RECURSIVE TermCandidates(_, _, _)
TermCandidates(anchors, nterms, t) ==
    IF t > nterms THEN <<>>
    ELSE SelectSeq(anchors, LAMBDA a : t \in a.match)
            \o TermCandidates(anchors, nterms, t + 1)

AnchorCandidates(anchors, nterms) ==
    LET hit == TermCandidates(anchors, nterms, 1)
    IN [ raised |-> \E i \in 1..Len(hit) : hit[i].href.bad,
         urls   |-> [i \in 1..Len(hit) |-> Resolve(hit[i].href)] ]

Fetches(kind, urls) == [i \in 1..Len(urls) |-> <<kind, urls[i]>>]

----------------------------------------------------------------------------
(* _extract_hero_products and _extract_product_from_page *)

\* elements[:10] of each selector
SelectorLimit == 10
\* list(product_links)[:5]
HeroLimit == 5

\* The resolved product links: per selector the first SelectorLimit
\* elements; raised when urljoin raises on one of them.
HeroLinks(sel) ==
    LET used == Concat([k \in 1..Len(sel) |-> Take(sel[k], SelectorLimit)])
    IN [ raised |-> \E i \in 1..Len(used) : used[i].bad,
         links  |-> {Resolve(used[i]) : i \in 1..Len(used)} ]

\* The orders in which list(product_links)[:5] can come out: a set has no
\* defined iteration order, so any HeroLimit distinct links in any order.
HeroOrders(links) ==
    LET n == Min(Cardinality(links), HeroLimit)
    IN {o \in [1..n -> links] : \A i, j \in 1..n : i # j => o[i] # o[j]}

\* _extract_product_from_page: None without a title
ProductFromPage(pg, handle) ==
    IF IsSome(pg.title) /\ Get(pg.title) # ""
    THEN Some([handle |-> handle, title |-> Get(pg.title)])
    ELSE None

\* The loop over the chosen links: each product page is fetched; a page that
\* fails to load or has no title adds nothing.
HeroProducts(s, order) ==
    LET one(u) == IF PageOf(s, u).ok THEN ProductFromPage(PageOf(s, u), u) ELSE None
    IN Concat([i \in 1..Len(order) |-> one(order[i])])

ExtractHeroProducts(s, order) ==
    IF HeroLinks(s.hero).raised THEN [value |-> <<>>, reqs |-> <<>>]
    ELSE [value |-> HeroProducts(s, order), reqs |-> Fetches("product", order)]

----------------------------------------------------------------------------
(* _extract_policy *)

\* len(content) > 100
MinContentLen == 100
\* content[:2000]
PolicyMaxLen == 2000
\* policy_links[:3], faq_links[:3], about_links[:3]
CandidateLimit == 3

PolicyPaths(type) ==
    IF type = "privacy"
    THEN <<"/pages/privacy-policy", "/privacy-policy", "/policies/privacy-policy">>
    ELSE <<"/pages/return-policy", "/return-policy", "/policies/refund-policy",
           "/pages/refund-policy">>

\* search_terms: two terms for privacy, four for return
PolicyTerms(type) == IF type = "privacy" THEN 2 ELSE 4

\* The candidate list: the well-known paths, then the in-page anchors.
PolicyLinks(type, anchors) ==
    PolicyPaths(type) \o AnchorCandidates(anchors, PolicyTerms(type)).urls

\* The content of a policy page: the text of the first selector that finds
\* an element (the cascade stops there, whatever its length).
FirstSel(pg) ==
    LET found == {i \in 1..Len(pg.sels) : IsSome(pg.sels[i])}
    IN IF found = {} THEN None
       ELSE pg.sels[CHOOSE k \in found : \A j \in found : k <= j]

\* PolicyAccepts taking any non-empty content
PolicyAccepts_AnyContent(pg) ==
    pg.ok /\ IsSome(FirstSel(pg)) /\ Get(FirstSel(pg)) > 0

\* if content and len(content) > 100
PolicyAccepts(pg) ==
    pg.ok /\ IsSome(FirstSel(pg)) /\ Get(FirstSel(pg)) > MinContentLen

PolicyOf(type, url, pg) ==
    [title |-> type, content |-> Truncate(Get(FirstSel(pg)), PolicyMaxLen), url |-> url]

\* The loop over policy_links[:3]: the first accepted page is returned, and
\* with it the candidates fetched up to it.
RECURSIVE TryPolicy(_, _, _, _)
TryPolicy(s, type, cands, done) ==
    IF cands = <<>> THEN [value |-> None, reqs |-> done]
    ELSE LET u == Head(cands)
         IN IF PolicyAccepts(PageOf(s, u))
            THEN [value |-> Some(PolicyOf(type, u, PageOf(s, u))),
                  reqs  |-> Append(done, <<"policy", u>>)]
            ELSE TryPolicy(s, type, Tail(cands), Append(done, <<"policy", u>>))

ExtractPolicy(s, type, anchors) ==
    IF AnchorCandidates(anchors, PolicyTerms(type)).raised
    THEN [value |-> None, reqs |-> <<>>]
    ELSE TryPolicy(s, type, Take(PolicyLinks(type, anchors), CandidateLimit), <<>>)

----------------------------------------------------------------------------
(* _extract_about_brand *)

\* content[:1000], extracted_text[:1000]
AboutMaxLen == 1000

AboutPaths == <<"/pages/about", "/about", "/pages/about-us", "/our-story">>
\* about_terms
AboutTerms == 4

\* The in-page anchors come first here, then the common paths.
AboutLinks(anchors) == AnchorCandidates(anchors, AboutTerms).urls \o AboutPaths

\* What one about page yields: the first selector whose text is longer than
\* MinContentLen (a shorter one is passed over), else the general text
\* extraction of a second GET when that is longer than MinContentLen.
AboutFromPage(pg) ==
    LET good == {i \in 1..Len(pg.sels) :
                    IsSome(pg.sels[i]) /\ Get(pg.sels[i]) > MinContentLen}
    IN IF good # {}
       THEN Some(Truncate(Get(pg.sels[CHOOSE k \in good : \A j \in good : k <= j]),
                          AboutMaxLen))
       ELSE IF IsSome(pg.traf) /\ Get(pg.traf) > MinContentLen
       THEN Some(Truncate(Get(pg.traf), AboutMaxLen))
       ELSE None

\* Did the page need the second GET of the fallback?
AboutSecondGet(pg) ==
    ~\E i \in 1..Len(pg.sels) : IsSome(pg.sels[i]) /\ Get(pg.sels[i]) > MinContentLen

\* The meta description of the homepage, returned as it is: content.strip().
\* meta: None when the tag or a non-empty content attribute is missing, else
\* the length of the content after strip().
AboutFromMeta(meta) == IF IsSome(meta) THEN Some(Get(meta)) ELSE None

RECURSIVE TryAbout(_, _, _, _)
TryAbout(s, cands, meta, done) ==
    IF cands = <<>> THEN [value |-> AboutFromMeta(meta), reqs |-> done]
    ELSE LET u    == Head(cands)
             pg   == PageOf(s, u)
             reqs == IF pg.ok /\ AboutSecondGet(pg)
                     THEN done \o <<(<<"about", u>>), (<<"about", u>>)>>
                     ELSE Append(done, <<"about", u>>)
         IN IF pg.ok /\ IsSome(AboutFromPage(pg))
            THEN [value |-> AboutFromPage(pg), reqs |-> reqs]
            ELSE TryAbout(s, Tail(cands), meta, reqs)

\* A urljoin that raises while the candidates are gathered ends the
\* extractor in its outer except clause: None, the meta fallback not tried.
ExtractAboutBrand(s, anchors, meta) ==
    IF AnchorCandidates(anchors, AboutTerms).raised
    THEN [value |-> None, reqs |-> <<>>]
    ELSE TryAbout(s, Take(AboutLinks(anchors), CandidateLimit), meta, <<>>)

----------------------------------------------------------------------------
(* _extract_faqs *)

\* len(question) > 5 and len(answer) > 10
MinQuestionLen == 5
MinAnswerLen == 10
\* faqs[:10]
FaqLimit == 10

FaqPaths == <<"/pages/faq", "/faq", "/help", "/support">>
\* faq_terms
FaqTerms == 4

FaqLinks(anchors) == AnchorCandidates(anchors, FaqTerms).urls \o FaqPaths

\* One question/answer candidate a structural pattern finds on a page:
\*   q, a   the lengths of the question and answer texts after strip(),
\*          None when the element is missing
\*   occ    how often the question text occurs in the answer text
\*   ws     the white space strip() removes once the question is taken out
Qa(q, a, occ, ws) == [q |-> q, a |-> a, occ |-> occ, ws |-> ws]

\* answer.replace(question, '').strip() when the question occurs in it
CleanAnswerLen(c) ==
    IF c.occ > 0 THEN Get(c.a) - c.occ * Get(c.q) - c.ws ELSE Get(c.a)

\* FaqAccepts without the floor on the answer
FaqAccepts_NoAnswerFloor(c) ==
    /\ IsSome(c.q) /\ IsSome(c.a)
    /\ Get(c.q) > 0 /\ CleanAnswerLen(c) > 0
    /\ Get(c.q) > MinQuestionLen

\* if question and answer and len(question) > 5 and len(answer) > 10
FaqAccepts(c) ==
    /\ IsSome(c.q) /\ IsSome(c.a)
    /\ Get(c.q) > 0 /\ CleanAnswerLen(c) > 0
    /\ Get(c.q) > MinQuestionLen
    /\ CleanAnswerLen(c) > MinAnswerLen

\* The FAQ entries of one page, in the order the patterns find them.
PageFaqs(pg, u) ==
    LET idx == SelectSeq([i \in 1..Len(pg.qa) |-> i],
                         LAMBDA i : FaqAccepts(pg.qa[i]))
    IN [n \in 1..Len(idx) |->
          [question |-> Get(pg.qa[idx[n]].q),
           answer   |-> CleanAnswerLen(pg.qa[idx[n]]),
           src      |-> <<u, idx[n]>>]]

\* The loop over faq_links[:3]: it stops at the first page that gave entries.
RECURSIVE TryFaqs(_, _, _)
TryFaqs(s, cands, done) ==
    IF cands = <<>> THEN [value |-> <<>>, reqs |-> done]
    ELSE LET u  == Head(cands)
             pg == PageOf(s, u)
         IN IF pg.ok /\ PageFaqs(pg, u) # <<>>
            THEN [value |-> PageFaqs(pg, u), reqs |-> Append(done, <<"faq", u>>)]
            ELSE TryFaqs(s, Tail(cands), Append(done, <<"faq", u>>))

ExtractFaqs(s, anchors) ==
    IF AnchorCandidates(anchors, FaqTerms).raised
    THEN [value |-> <<>>, reqs |-> <<>>]
    ELSE LET r == TryFaqs(s, Take(FaqLinks(anchors), CandidateLimit), <<>>)
         IN [value |-> Take(r.value, FaqLimit), reqs |-> r.reqs]

----------------------------------------------------------------------------
(* De-duplication by URL, as both _extract_social_handles and              *)
(* _extract_important_links do it: the first entry of each URL is kept.    *)

\* UniqueByUrl keeping every entry
UniqueByUrl_KeepAll(entries, seen) == entries

RECURSIVE UniqueByUrl(_, _)
UniqueByUrl(entries, seen) ==
    IF entries = <<>> THEN <<>>
    ELSE IF Head(entries).url \in seen THEN UniqueByUrl(Tail(entries), seen)
    ELSE <<Head(entries)>> \o UniqueByUrl(Tail(entries), seen \cup {Head(entries).url})

----------------------------------------------------------------------------
(* _extract_social_handles *)

\* social_platforms, in the order of the dictionary
Platforms ==
    << [name |-> "instagram", domains |-> <<"instagram.com", "instagr.am">>],
       [name |-> "facebook",  domains |-> <<"facebook.com", "fb.com">>],
       [name |-> "twitter",   domains |-> <<"twitter.com", "t.co">>],
       [name |-> "tiktok",    domains |-> <<"tiktok.com">>],
       [name |-> "youtube",   domains |-> <<"youtube.com", "youtu.be">>],
       [name |-> "linkedin",  domains |-> <<"linkedin.com">>],
       [name |-> "pinterest", domains |-> <<"pinterest.com">>] >>

\* An href is the sequence of its parts between slashes, lower-cased, and
\* whether the original spelling has capitals (the stored URL is the
\* original spelling).  `domain in part` for the parts of the model:
SubstringOf(domain, part) ==
    <<domain, part>> \in
        { <<"instagram.com", "instagram.com">>,
          <<"instagram.com", "www.instagram.com">>,
          <<"instagram.com", "sharer.php?u=instagram.com">>,
          <<"instagr.am", "instagr.am">>,
          <<"facebook.com", "facebook.com">>,
          <<"facebook.com", "www.facebook.com">>,
          <<"twitter.com", "twitter.com">>,
          <<"t.co", "pinterest.com">>,
          <<"youtube.com", "youtube.com">>,
          <<"pinterest.com", "pinterest.com">> }

\* domain in href
DomainInHref(domain, href) ==
    \E i \in 1..Len(href.parts) : SubstringOf(domain, href.parts[i])

\* part.split('?')[0]
BeforeQuery(part) ==
    IF part = "acme?hl=en" THEN "acme"
    ELSE IF part = "sharer.php?u=instagram.com" THEN "sharer.php"
    ELSE part

\* The handle: for instagram, facebook and twitter the part after the first
\* part holding "<platform>.com", when there is one; None for the rest.
HandleOf(platform, href) ==
    LET key == platform \o ".com"
        at  == {i \in 1..Len(href.parts) - 1 : SubstringOf(key, href.parts[i])}
    IN IF platform \in {"instagram", "facebook", "twitter"} /\ at # {}
       THEN Some(BeforeQuery(href.parts[(CHOOSE i \in at : \A j \in at : i <= j) + 1]))
       ELSE None

\* The entries one anchor adds: one per platform one of whose domains
\* occurs in the href, in platform order.
LinkHandles(href) ==
    LET hit == SelectSeq(Platforms,
                 LAMBDA pf : \E d \in 1..Len(pf.domains) :
                                 DomainInHref(pf.domains[d], href))
    IN [i \in 1..Len(hit) |->
          [platform |-> hit[i].name, url |-> href, handle |-> HandleOf(hit[i].name, href)]]

RawSocialHandles(hrefs) == Concat([i \in 1..Len(hrefs) |-> LinkHandles(hrefs[i])])

\* Nothing in the try block raises on a parsed document, so unique_handles
\* is always bound when it is returned.
ExtractSocialHandles(hrefs) ==
    [raised |-> FALSE, value |-> UniqueByUrl(RawSocialHandles(hrefs), {})]

----------------------------------------------------------------------------
(* _extract_contact_info *)

\* 10 <= len(clean_phone) <= 15
MinPhoneDigits == 10
MaxPhoneDigits == 15
\* contact_links[:2]
ContactLimit == 2

ContactPaths == <<"/pages/contact", "/contact", "/contact-us">>
\* contact_terms
ContactTerms == 3

ContactLinks(anchors) == AnchorCandidates(anchors, ContactTerms).urls \o ContactPaths

\* A phone match is its text and the number of digits in it.
ValidPhones(ms) ==
    {ms[i] : i \in {j \in 1..Len(ms) :
                      ms[j].digits >= MinPhoneDigits /\ ms[j].digits <= MaxPhoneDigits}}

\* The first candidate among contact_links[:2] that loads, None when none does.
RECURSIVE FirstLoaded(_, _, _)
FirstLoaded(s, cands, done) ==
    IF cands = <<>> THEN [url |-> None, reqs |-> done]
    ELSE IF PageOf(s, Head(cands)).ok
         THEN [url |-> Some(Head(cands)), reqs |-> Append(done, <<"contact", Head(cands)>>)]
         ELSE FirstLoaded(s, Tail(cands), Append(done, <<"contact", Head(cands)>>))

ExtractContactInfo(s, home, anchors) ==
    LET own == [emails |-> Range(home.emails), phones |-> ValidPhones(home.phones),
                addresses |-> {}]
    IN IF AnchorCandidates(anchors, ContactTerms).raised
       THEN [value |-> own, reqs |-> <<>>]
       ELSE LET f == FirstLoaded(s, Take(ContactLinks(anchors), ContactLimit), <<>>)
            IN IF IsSome(f.url)
               THEN [value |->
                        [emails |-> own.emails \cup Range(PageOf(s, Get(f.url)).emails),
                         phones |-> own.phones
                                      \cup ValidPhones(PageOf(s, Get(f.url)).phones),
                         addresses |-> {}],
                     reqs |-> f.reqs]
               ELSE [value |-> own, reqs |-> f.reqs]

----------------------------------------------------------------------------
(* _extract_important_links *)

\* len(text) < 100
MaxLinkTextLen == 100
\* unique_links[:10]
LinkLimit == 10

\* The category of a link text: the first category of important_patterns,
\* in the order of the dictionary, one of whose keywords occurs in the
\* lower-cased text; None when no keyword occurs.
CategoryOf(text) ==
    CASE text = "Track Your Order"   -> Some("order tracking")
      [] text = "Contact Us"         -> Some("contact us")
      [] text = "Contact Support"    -> Some("contact us")
      [] text = "Blog"               -> Some("blog")
      [] text = "Size Guide"         -> Some("size guide")
      [] text = "Shipping & Returns" -> Some("shipping")
      [] text = "Returns"            -> Some("returns")
      [] text = "Help Center"        -> Some("help")
      [] OTHER                       -> None

\* A link text is its string and its length.
LinkMatches(a) ==
    /\ a.text.len > 0
    /\ IsSome(CategoryOf(a.text.s))
    /\ a.text.len < MaxLinkTextLen

RawImportantLinks(anchors) ==
    LET hit == SelectSeq(anchors, LAMBDA a : LinkMatches(a))
    IN [i \in 1..Len(hit) |->
          [title |-> hit[i].text.s, url |-> Resolve(hit[i].href),
           description |-> Get(CategoryOf(hit[i].text.s))]]

\* urljoin raises on the href of a matching link: the except clause logs it,
\* and the return statement then reads unique_links, which was never bound:
\* the UnboundLocalError leaves the extractor.
ImportantLinksRaise(anchors) ==
    \E i \in 1..Len(anchors) : LinkMatches(anchors[i]) /\ anchors[i].href.bad

\* ExtractImportantLinks without the final [:10]
ExtractImportantLinks_Uncapped(anchors) ==
    IF ImportantLinksRaise(anchors) THEN [raised |-> TRUE, value |-> <<>>]
    ELSE [raised |-> FALSE, value |-> UniqueByUrl(RawImportantLinks(anchors), {})]

ExtractImportantLinks(anchors) ==
    IF ImportantLinksRaise(anchors) THEN [raised |-> TRUE, value |-> <<>>]
    ELSE [raised |-> FALSE,
          value  |-> Take(UniqueByUrl(RawImportantLinks(anchors), {}), LinkLimit)]

----------------------------------------------------------------------------
(* The storefront *)

NoElems == <<None, None, None, None, None, None>>

BrandPages ==
    { NoElems,
      <<Some(TitleElem("Acme", " Store")), None, None, None, None, None>>,
      <<Some(TitleElem("", "")), Some(ImgElem(Some("Acme"))), None, None, None, None>>,
      <<None, Some(ImgElem(None)), None, None, Some(TextElem("Acme")), None>>,
      <<None, None, Some(ImgElem(Some("Acme"))), None, None, Some(TextElem("Acme"))>>,
      <<None, None, None, None, None, Some(TextElem("Acme"))>> }

Endpoint(full, last, k, sp_page, sp_idx, special) ==
    [full |-> full, last |-> last, k |-> k,
     sp_page |-> sp_page, sp_idx |-> sp_idx, special |-> special]

ShortLens == {0, 1, 10, PageSize - 1}

\* Where the special entry sits on its page.
SpecialIdx == {1, 2, PageSize}

Endpoints ==
    { Endpoint(full, "short", k, 1, 1, Filler) :
        full \in 0..MaxFullPages, k \in ShortLens }
      \cup { Endpoint(full, last, 0, 1, 1, Filler) :
        full \in 0..MaxFullPages, last \in {"missing", "error"} }
      \cup { Endpoint(full, "short", 10, sp[1], sp[2], e) :
        full \in 0..MaxFullPages, sp \in (1..2) \X SpecialIdx,
        e \in SpecialEntries \ {Filler} }
      \cup { Endpoint(0, "endless", 0, 2, 2, e) :
        e \in {Filler, Entry("title_null", <<>>), Entry("scalar", <<>>)} }

DefaultEndpoint == Endpoint(0, "short", 1, 1, 1, Filler)

\* Sequences over S of length at most n
SeqsUpTo(S, n) == UNION {[1..k -> S] : k \in 0..n}

ProductPaths ==
    << "/products/p1", "/products/p2", "/products/p3", "/products/p4",
       "/products/p5", "/products/p6", "/products/p7", "/products/p8",
       "/products/p9", "/products/p10", "/products/p11", "/products/p12" >>

ProductPage(title) == [Page(TRUE, NoSels, None) EXCEPT !.title = title]
ContentPage(len) == Page(TRUE, <<None, Some(len), None, None, None>>, None)
FaqPage(qa) == [Page(TRUE, NoSels, None) EXCEPT !.qa = qa]

GoodQa == Qa(Some(20), Some(50), 0, 0)

\* The product pages p1..pn, all with a title.
ProductPages(n) == [u \in {ProductPaths[i] : i \in 1..n} |-> ProductPage(Some("Product"))]

ProductLinks(n) == [i \in 1..n |-> Href(ProductPaths[i], FALSE, FALSE)]

DefaultPages ==
    ProductPages(MaxHeroLinks + 2)
      @@ ( "/pages/privacy-policy" :> ContentPage(150) )
      @@ ( "/pages/return-policy" :> ContentPage(2500) )
      @@ ( "/pages/faq" :> FaqPage(<<GoodQa>>) )
      @@ ( "/pages/about" :> ContentPage(500) )
      @@ ( "/pages/contact" :>
             [Page(TRUE, NoSels, None) EXCEPT !.emails = <<"help@shop.example">>] )

DefaultSite ==
    [ home_ok         |-> TRUE,
      brand           |-> <<Some(TitleElem("Acme", " Store")), None, None, None, None, None>>,
      endpoint        |-> DefaultEndpoint,
      hero            |-> <<(<<>>), (<<>>), (<<>>), ProductLinks(1)>>,
      pages           |-> DefaultPages,
      privacy_anchors |-> <<>>,
      return_anchors  |-> <<>>,
      faq_anchors     |-> <<>>,
      social          |-> <<[parts |-> <<"https:", "", "instagram.com", "acme">>,
                             cased |-> FALSE]>>,
      contact_home    |-> [emails |-> <<"info@shop.example">>,
                           phones |-> <<[s |-> "+1 5550100200", digits |-> 11]>>],
      contact_anchors |-> <<>>,
      about_anchors   |-> <<>>,
      meta            |-> Some(50),
      link_anchors    |-> <<Anchor(Href("/pages/contact", FALSE, FALSE),
                                   [s |-> "Contact Us", len |-> 10], {})>> ]

\* Product links: n distinct ones under the general selector, the first two
\* of them also as product cards; a selector with more than SelectorLimit
\* elements; an href urljoin rejects; product pages that fail or lack a title.
HeroSites ==
    { [DefaultSite EXCEPT !.hero =
          <<Take(ProductLinks(n), 2), (<<>>), (<<>>), ProductLinks(n)>>] :
        n \in 0..MaxHeroLinks }
      \cup { [DefaultSite EXCEPT !.hero =
          <<(<<>>), (<<>>), (<<>>),
            [i \in 1..SelectorLimit |-> Href(ProductPaths[1], i > 1, FALSE)]
               \o ProductLinks(MaxHeroLinks + 2)>>] }
      \cup { [DefaultSite EXCEPT !.hero =
          <<(<<>>), (<<>>), (<<>>),
            ProductLinks(2) \o <<Href("/products/[", TRUE, TRUE)>>>>] }
      \cup { [DefaultSite EXCEPT
                !.hero = <<(<<>>), (<<>>), (<<>>), ProductLinks(2)>>,
                !.pages = ("/products/p1" :> k[1]) @@ ("/products/p2" :> k[2])
                             @@ DefaultPages] :
        k \in {NotFound, ProductPage(None), ProductPage(Some("")),
               ProductPage(Some("Product"))}
              \X {NotFound, ProductPage(None), ProductPage(Some("Product"))} }

\* What a candidate page of a policy or of the about text may be.
ContentLens == {0, 50, 100, 101, 150, 1000, 1001, 2000, 2001, 5000}

ContentPages ==
    {NotFound, Page(TRUE, NoSels, None)}
      \cup {ContentPage(n) : n \in ContentLens}
      \cup { Page(TRUE, <<Some(50), Some(150), None, None, Some(5000)>>, None),
             Page(TRUE, <<None, None, Some(100), Some(2001), None>>, Some(150)),
             Page(TRUE, <<Some(50), None, None, None, None>>, Some(1001)),
             Page(TRUE, NoSels, Some(5000)),
             Page(TRUE, NoSels, Some(100)) }

PlainAnchor(path, match) == Anchor(Href(path, FALSE, FALSE), [s |-> "", len |-> 0], match)
BadAnchor(match) == Anchor(Href("http://[", TRUE, TRUE), [s |-> "", len |-> 0], match)

\* The anchor lists of the candidate-gathering extractors.
AnchorLists ==
    SeqsUpTo({PlainAnchor("/pages/legal", {1}), PlainAnchor("/pages/info", {1, 2}),
              PlainAnchor("/pages/info", {2}), BadAnchor({1})}, MaxAnchors)

PolicySites ==
    { [DefaultSite EXCEPT
         !.pages = ("/pages/privacy-policy" :> pg[1]) @@ ("/privacy-policy" :> pg[2])
                     @@ ("/pages/return-policy" :> pg[1])
                     @@ ("/policies/refund-policy" :> pg[2]) @@ DefaultPages] :
        pg \in ContentPages \X {NotFound, ContentPage(50), ContentPage(150),
                                 ContentPage(2001)} }
      \cup { [DefaultSite EXCEPT
         !.pages = ("/pages/privacy-policy" :> NotFound) @@ ("/pages/legal" :> pg)
                     @@ ("/pages/return-policy" :> ContentPage(50)) @@ DefaultPages,
         !.privacy_anchors = as, !.return_anchors = as] :
        pg \in {NotFound, ContentPage(150)}, as \in AnchorLists }

AboutSites ==
    { [DefaultSite EXCEPT
         !.pages = ("/pages/about" :> pg[1]) @@ ("/about" :> pg[2]) @@ DefaultPages,
         !.meta = m] :
        pg \in ContentPages \X {NotFound, ContentPage(50), ContentPage(1001)},
        m \in {None, Some(50)} }
      \cup { [DefaultSite EXCEPT
         !.pages = ("/pages/about" :> NotFound) @@ ("/pages/info" :> pg) @@ DefaultPages,
         !.about_anchors = as, !.meta = m] :
        pg \in {NotFound, ContentPage(150)}, as \in AnchorLists,
        m \in {None, Some(0), Some(50), Some(1000), Some(1001), Some(3000)} }

\* Question/answer candidates: acceptable ones, ones below a floor, ones
\* whose answer falls below the floor once the question is taken out.
QaKinds ==
    { GoodQa,
      Qa(Some(5), Some(50), 0, 0),
      Qa(Some(6), Some(11), 0, 0),
      Qa(Some(20), Some(10), 0, 0),
      Qa(Some(20), Some(35), 1, 5),
      Qa(Some(20), Some(60), 1, 2),
      Qa(Some(20), None, 0, 0),
      Qa(None, Some(50), 0, 0),
      Qa(Some(0), Some(50), 1, 0) }

FaqSites ==
    { [DefaultSite EXCEPT
         !.pages = ("/pages/faq" :> FaqPage([i \in 1..n |-> GoodQa])) @@ DefaultPages] :
        n \in 0..MaxFaqPairs }
      \cup { [DefaultSite EXCEPT
         !.pages = ("/pages/faq" :> FaqPage(qa)) @@ ("/faq" :> FaqPage(<<GoodQa>>))
                     @@ DefaultPages] :
        qa \in SeqsUpTo(QaKinds, 2) }
      \cup { [DefaultSite EXCEPT
         !.pages = ("/pages/info" :> pg) @@ DefaultPages,
         !.faq_anchors = as] :
        pg \in {NotFound, FaqPage(<<GoodQa, GoodQa>>)}, as \in AnchorLists }

SocialHrefs ==
    { [parts |-> <<"https:", "", "instagram.com", "acme">>, cased |-> FALSE],
      [parts |-> <<"https:", "", "instagram.com", "acme">>, cased |-> TRUE],
      [parts |-> <<"https:", "", "www.instagram.com", "acme?hl=en">>, cased |-> FALSE],
      [parts |-> <<"https:", "", "instagr.am", "acme">>, cased |-> FALSE],
      [parts |-> <<"https:", "", "twitter.com", "acme">>, cased |-> FALSE],
      [parts |-> <<"https:", "", "pinterest.com", "acme">>, cased |-> FALSE],
      [parts |-> <<"https:", "", "www.facebook.com", "sharer.php?u=instagram.com">>,
       cased |-> FALSE],
      [parts |-> <<"https:", "", "youtube.com">>, cased |-> FALSE],
      [parts |-> <<"https:", "", "shop.example", "about">>, cased |-> FALSE] }

SocialSites == {[DefaultSite EXCEPT !.social = hs] : hs \in SeqsUpTo(SocialHrefs, 3)}

ContactSites ==
    { [DefaultSite EXCEPT
         !.contact_home = [emails |-> es, phones |-> ps],
         !.contact_anchors = as,
         !.pages = ("/pages/contact" :> pg) @@ ("/pages/legal" :> NotFound)
                     @@ DefaultPages] :
        es \in {<<>>, <<"info@shop.example", "info@shop.example">>},
        ps \in {<<>>, <<[s |-> "555-0100", digits |-> 7],
                        [s |-> "+1 5550100200", digits |-> 11],
                        [s |-> "1234567890123456", digits |-> 16]>>},
        as \in AnchorLists,
        pg \in {NotFound,
                [Page(TRUE, NoSels, None) EXCEPT
                    !.emails = <<"help@shop.example", "info@shop.example">>,
                    !.phones = <<[s |-> "(555) 010-0200", digits |-> 10],
                                 [s |-> "12345", digits |-> 5]>>]} }

LinkTexts ==
    << [s |-> "Track Your Order", len |-> 16], [s |-> "Contact Us", len |-> 10],
       [s |-> "Blog", len |-> 4], [s |-> "Size Guide", len |-> 10],
       [s |-> "Shipping & Returns", len |-> 18], [s |-> "Returns", len |-> 7],
       [s |-> "Help Center", len |-> 11], [s |-> "Contact Support", len |-> 15] >>

LinkPaths ==
    << "/l1", "/l2", "/l3", "/l4", "/l5", "/l6", "/l7", "/l8", "/l9", "/l10",
       "/l11", "/l12", "/l13", "/l14" >>

LinkAnchor(path, abs, bad, text) == Anchor(Href(path, abs, bad), text, {})

\* n anchors with a category keyword, all to different addresses
CategoryLinks(n) ==
    [i \in 1..n |-> LinkAnchor(LinkPaths[i], FALSE, FALSE,
                               LinkTexts[((i - 1) % Len(LinkTexts)) + 1])]

LinkAnchorKinds ==
    { LinkAnchor("/l1", FALSE, FALSE, LinkTexts[2]),
      LinkAnchor("/l1", TRUE, FALSE, LinkTexts[8]),
      LinkAnchor("/l2", FALSE, FALSE, LinkTexts[2]),
      LinkAnchor("/l3", FALSE, FALSE, [s |-> "Home", len |-> 4]),
      LinkAnchor("/l4", FALSE, FALSE, [s |-> "Contact Us", len |-> 120]),
      LinkAnchor("/l5", FALSE, FALSE, [s |-> "", len |-> 0]),
      LinkAnchor("http://[", TRUE, TRUE, LinkTexts[2]),
      LinkAnchor("http://[", TRUE, TRUE, [s |-> "Home", len |-> 4]) }

LinkSites ==
    { [DefaultSite EXCEPT !.link_anchors = CategoryLinks(n)] : n \in 0..MaxLinks }
      \cup { [DefaultSite EXCEPT !.link_anchors = as] : as \in SeqsUpTo(LinkAnchorKinds, 3) }
      \cup { [DefaultSite EXCEPT !.link_anchors =
                 CategoryLinks(MaxLinks) \o as \o CategoryLinks(MaxLinks)] :
               as \in SeqsUpTo(LinkAnchorKinds, 1) }

\* A storefront with more raw candidates than every cap, and with repeated
\* anchors.
BusySite ==
    [DefaultSite EXCEPT
       !.hero = <<Take(ProductLinks(MaxHeroLinks), 2), (<<>>), (<<>>),
                  ProductLinks(MaxHeroLinks)>>,
       !.pages = ("/pages/faq" :> FaqPage([i \in 1..MaxFaqPairs |-> GoodQa]))
                   @@ DefaultPages,
       !.social = <<[parts |-> <<"https:", "", "instagram.com", "acme">>,
                     cased |-> FALSE],
                    [parts |-> <<"https:", "", "pinterest.com", "acme">>,
                     cased |-> FALSE],
                    [parts |-> <<"https:", "", "instagram.com", "acme">>,
                     cased |-> FALSE]>>,
       !.link_anchors = CategoryLinks(MaxLinks) \o CategoryLinks(MaxLinks)]

\* The storefronts of the model: the default one with one part replaced.
Sites ==
    {[DefaultSite EXCEPT !.home_ok = FALSE]}
        \cup {[DefaultSite EXCEPT !.brand = b] : b \in BrandPages}
        \cup {[DefaultSite EXCEPT !.endpoint = ep] : ep \in Endpoints}
        \cup HeroSites \cup PolicySites \cup AboutSites \cup FaqSites
        \cup SocialSites \cup ContactSites \cup LinkSites \cup {BusySite}

----------------------------------------------------------------------------
(* scrape_store *)

base_url == BaseUrl(input_url)

ScrapeInit ==
    /\ \/ /\ site \in Sites
          /\ input_url = [scheme |-> "https", host |-> "shop.example", slash |-> FALSE]
       \/ site \in {DefaultSite, [DefaultSite EXCEPT !.home_ok = FALSE]}
            /\ input_url \in Urls
    /\ pc = "start"
    /\ brand_context = BrandContext(BaseUrl(input_url), "success", None)
    /\ page = 1
    /\ products = <<>>
    /\ requests = <<>>
    /\ result = None

\* Abort letting the exception leave scrape_store
Abort_Reraise(msg) ==
    /\ result' = result
    /\ pc' = "raised"

\* The except clause of scrape_store: whatever was assembled is dropped and a
\* fresh BrandContext with status "error" is returned.
Abort(msg) ==
    /\ result' = Some(BrandContext(base_url, "error", Some(msg)))
    /\ pc' = "returned"

\* FetchHomepage without the test of what _get_page_soup returned
FetchHomepage_Unchecked ==
    /\ pc = "start"
    /\ requests' = Append(requests, <<"homepage", "/">>)
    /\ pc' = "brand_name"
    /\ UNCHANGED <<site, input_url, brand_context, page, products, result>>
    /\ UNCHANGED <<compVars, otherVars>>

\* _get_page_soup(self.base_url); a failure raises "Failed to load homepage".
FetchHomepage ==
    /\ pc = "start"
    /\ requests' = Append(requests, <<"homepage", "/">>)
    /\ IF site.home_ok
         THEN pc' = "brand_name" /\ result' = result
         ELSE Abort("Failed to load homepage")
    /\ UNCHANGED <<site, input_url, brand_context, page, products>>
    /\ UNCHANGED <<compVars, otherVars>>

BrandName ==
    /\ pc = "brand_name"
    /\ brand_context' =
         [brand_context EXCEPT !.brand_name = ExtractBrandName(site.brand, base_url)]
    /\ pc' = "catalog"
    /\ UNCHANGED <<site, input_url, page, products, requests, result>>
    /\ UNCHANGED <<compVars, otherVars>>

\* One request of the pagination loop; the request that ends the loop also
\* returns the products to scrape_store.  The loop has no ceiling; the model
\* follows it for MaxFullPages + 1 pages.
CatalogPage ==
    /\ pc = "catalog"
    /\ page <= MaxFullPages + 1
    /\ LET st == CatalogStep(Response(site.endpoint, page), page, products)
       IN /\ products' = st.products
          /\ IF st.done
               THEN /\ brand_context' =
                         [brand_context EXCEPT !.product_catalog = st.products]
                    /\ pc' = "hero"
                    /\ page' = page
               ELSE /\ page' = page + 1
                    /\ UNCHANGED <<brand_context, pc>>
    /\ requests' = Append(requests, <<"catalog", page>>)
    /\ UNCHANGED <<site, input_url, result>>
    /\ UNCHANGED <<compVars, otherVars>>

HeroProductsStep ==
    /\ pc = "hero"
    /\ \E order \in HeroOrders(HeroLinks(site.hero).links) :
         LET r == ExtractHeroProducts(site, order)
         IN /\ brand_context' = [brand_context EXCEPT !.hero_products = r.value]
            /\ requests' = requests \o r.reqs
    /\ pc' = "privacy"
    /\ UNCHANGED <<site, input_url, page, products, result>>
    /\ UNCHANGED <<compVars, otherVars>>

PrivacyPolicy ==
    /\ pc = "privacy"
    /\ LET r == ExtractPolicy(site, "privacy", site.privacy_anchors)
       IN /\ brand_context' = [brand_context EXCEPT !.privacy_policy = r.value]
          /\ requests' = requests \o r.reqs
    /\ pc' = "return"
    /\ UNCHANGED <<site, input_url, page, products, result>>
    /\ UNCHANGED <<compVars, otherVars>>

ReturnPolicy ==
    /\ pc = "return"
    /\ LET r == ExtractPolicy(site, "return", site.return_anchors)
       IN /\ brand_context' = [brand_context EXCEPT !.return_refund_policy = r.value]
          /\ requests' = requests \o r.reqs
    /\ pc' = "faqs"
    /\ UNCHANGED <<site, input_url, page, products, result>>
    /\ UNCHANGED <<compVars, otherVars>>

Faqs ==
    /\ pc = "faqs"
    /\ LET r == ExtractFaqs(site, site.faq_anchors)
       IN /\ brand_context' = [brand_context EXCEPT !.faqs = r.value]
          /\ requests' = requests \o r.reqs
    /\ pc' = "social"
    /\ UNCHANGED <<site, input_url, page, products, result>>
    /\ UNCHANGED <<compVars, otherVars>>

SocialHandles ==
    /\ pc = "social"
    /\ LET r == ExtractSocialHandles(site.social)
       IN IF r.raised
          THEN Abort("unique_handles") /\ UNCHANGED brand_context
          ELSE /\ brand_context' = [brand_context EXCEPT !.social_handles = r.value]
               /\ pc' = "contact"
               /\ result' = result
    /\ UNCHANGED <<site, input_url, page, products, requests>>
    /\ UNCHANGED <<compVars, otherVars>>

ContactInfo ==
    /\ pc = "contact"
    /\ LET r == ExtractContactInfo(site, site.contact_home, site.contact_anchors)
       IN /\ brand_context' = [brand_context EXCEPT !.contact_info = r.value]
          /\ requests' = requests \o r.reqs
    /\ pc' = "about"
    /\ UNCHANGED <<site, input_url, page, products, result>>
    /\ UNCHANGED <<compVars, otherVars>>

AboutBrand ==
    /\ pc = "about"
    /\ LET r == ExtractAboutBrand(site, site.about_anchors, site.meta)
       IN /\ brand_context' = [brand_context EXCEPT !.about_brand = r.value]
          /\ requests' = requests \o r.reqs
    /\ pc' = "links"
    /\ UNCHANGED <<site, input_url, page, products, result>>
    /\ UNCHANGED <<compVars, otherVars>>

\* The last extractor, and the return of the assembled BrandContext.
ImportantLinks ==
    /\ pc = "links"
    /\ LET r == ExtractImportantLinks(site.link_anchors)
       IN IF r.raised
          THEN Abort("unique_links") /\ UNCHANGED brand_context
          ELSE /\ brand_context' = [brand_context EXCEPT !.important_links = r.value]
               /\ result' = Some(brand_context')
               /\ pc' = "returned"
    /\ UNCHANGED <<site, input_url, page, products, requests>>
    /\ UNCHANGED <<compVars, otherVars>>

----------------------------------------------------------------------------
(* competitor_analysis.py: URLs *)

\* A URL as find_competitors meets it:
\*   scheme  "https", "http", or "" when the string has no scheme
\*   www     the number of leading "www." labels of its host
\*   name    the rest of the host, lower-cased
\*   upper   the host is spelled with capitals
\*   port    the network location carries a port (":443")
\*   path    the path
Url(scheme, www, name, upper, port, path) ==
    [scheme |-> scheme, www |-> www, name |-> name, upper |-> upper,
     port |-> port, path |-> path]

\* _extract_domain: urlparse(url).netloc.lower() without one leading "www.".
\* The network location keeps the port; a string without scheme has none.
ExtractDomain(u) ==
    IF u.scheme = "" THEN [www |-> 0, name |-> "", port |-> FALSE]
    ELSE [www |-> IF u.www > 0 THEN u.www - 1 ELSE 0, name |-> u.name, port |-> u.port]

\* skip_domains: does one of them occur in the domain?
SkipDomain(d) == d.name \in {"amazon.com", "notamazon.com"}

\* ecommerce_indicators: does one of them occur in the lower-cased URL?
\* "shop" occurs in the hosts shop.example and rival.shop, "store" in /store.
HasEcommerceIndicator(u) ==
    u.name \in {"shop.example", "rival.shop"} \/ u.path = "/store"

\* _is_potential_competitor without the comparison of the two domains
IsPotentialCompetitor_AnyDomain(u, original) ==
    /\ u.scheme \in {"http", "https"}
    /\ ~SkipDomain(ExtractDomain(u))
    /\ HasEcommerceIndicator(u)

\* _is_potential_competitor
IsPotentialCompetitor(u, original) ==
    /\ u.scheme \in {"http", "https"}
    /\ ExtractDomain(u) # ExtractDomain(original)
    /\ ~SkipDomain(ExtractDomain(u))
    /\ HasEcommerceIndicator(u)

\* if len(competitors) >= 10: break, inside _search_competitors
SearchLimit == 10

\* _search_competitors: the result links that pass the filter, at most
\* SearchLimit of them; nothing when the search request fails.
RECURSIVE KeepResults(_, _, _)
KeepResults(links, original, acc) ==
    IF links = <<>> THEN acc
    ELSE LET acc2 == IF IsPotentialCompetitor(Head(links), original)
                     THEN Append(acc, Head(links)) ELSE acc
         IN IF Len(acc2) >= SearchLimit THEN acc2
            ELSE KeepResults(Tail(links), original, acc2)

SearchCompetitors(answer, original) ==
    IF answer.ok THEN KeepResults(answer.links, original, <<>>) ELSE <<>>

\* _analyze_website_content: the outbound links of the source's own page
\* that pass the filter and whose text holds a comparison word.
AnalyzeWebsiteContent(home, original) ==
    IF ~home.ok THEN <<>>
    ELSE LET hit == SelectSeq(home.links,
                      LAMBDA l : IsPotentialCompetitor(l.url, original) /\ l.indicator)
         IN [i \in 1..Len(hit) |-> hit[i].url]

\* The scheme _clean_and_validate_urls gives a string without one.
CleanUrl(u) == IF u.scheme = "" THEN [u EXCEPT !.scheme = "https"] ELSE u

\* The reachability test of one URL: HEAD; a GET only when the HEAD raised.
\* reach[name] is what the host answers: head and get are each "ok" (status
\* below 400), "error" (status 400 or above) or "raise" (transport error).
Reachable(w, u) ==
    LET r == w.reach[u.name]
    IN IF r.head = "raise" THEN r.get = "ok" ELSE r.head = "ok"

ReachRequests(w, u) ==
    IF w.reach[u.name].head = "raise" THEN <<(<<"head", u>>), (<<"get", u>>)>>
    ELSE <<(<<"head", u>>)>>

CleanAndValidateUrls(w, urls) ==
    LET cl == [i \in 1..Len(urls) |-> CleanUrl(urls[i])]
    IN SelectSeq(cl, LAMBDA u : Reachable(w, u))

CleanRequests(w, urls) ==
    Concat([i \in 1..Len(urls) |-> ReachRequests(w, CleanUrl(urls[i]))])

\* UniqueCompetitors without the test of len(unique_competitors)
RECURSIVE UniqueCompetitors_Uncapped(_, _, _, _)
UniqueCompetitors_Uncapped(urls, seen, acc, max) ==
    IF urls = <<>> THEN acc
    ELSE IF ExtractDomain(Head(urls)) \notin seen
    THEN UniqueCompetitors_Uncapped(Tail(urls), seen \cup {ExtractDomain(Head(urls))},
                                    Append(acc, Head(urls)), max)
    ELSE UniqueCompetitors_Uncapped(Tail(urls), seen, acc, max)

\* The de-duplication by domain, first seen first, up to max entries.
RECURSIVE UniqueCompetitors(_, _, _, _)
UniqueCompetitors(urls, seen, acc, max) ==
    IF urls = <<>> THEN acc
    ELSE IF ExtractDomain(Head(urls)) \notin seen /\ Len(acc) < max
    THEN UniqueCompetitors(Tail(urls), seen \cup {ExtractDomain(Head(urls))},
                           Append(acc, Head(urls)), max)
    ELSE UniqueCompetitors(Tail(urls), seen, acc, max)

\* search_queries
NumQueries == 4

----------------------------------------------------------------------------
(* The web find_competitors sees *)

SourceUrls ==
    { Url("https", 0, "shop.example", FALSE, FALSE, ""),
      Url("https", 1, "shop.example", FALSE, FALSE, ""),
      Url("https", 1, "shop.example", TRUE, FALSE, "") }

ResultUrls ==
    { Url("https", 0, "shop.example", FALSE, FALSE, "/store"),
      Url("https", 1, "shop.example", TRUE, FALSE, "/store"),
      Url("https", 0, "shop.example", FALSE, TRUE, "/store"),
      Url("https", 2, "shop.example", FALSE, FALSE, "/store"),
      Url("https", 0, "rival.shop", FALSE, FALSE, ""),
      Url("http", 1, "rival.shop", FALSE, FALSE, "/about"),
      Url("https", 0, "rival.shop", FALSE, TRUE, "/store"),
      Url("", 0, "rival.shop", FALSE, FALSE, ""),
      Url("https", 0, "other.example", FALSE, FALSE, "/about"),
      Url("https", 0, "other.example", FALSE, FALSE, "/store"),
      Url("https", 1, "amazon.com", FALSE, FALSE, "/store") }

Names == {"shop.example", "rival.shop", "other.example", "amazon.com"}

Answer(ok, links) == [ok |-> ok, links |-> links]

AllReachable == [n \in Names |-> [head |-> "ok", get |-> "ok"]]

ReachKinds ==
    { [head |-> "ok", get |-> "ok"], [head |-> "error", get |-> "ok"],
      [head |-> "raise", get |-> "ok"], [head |-> "raise", get |-> "error"],
      [head |-> "raise", get |-> "raise"] }

OutLink(u, ind) == [url |-> u, indicator |-> ind]

Web(results, home, reach) == [results |-> results, home |-> home, reach |-> reach]

DefaultResults ==
    << Answer(TRUE, <<Url("https", 0, "rival.shop", FALSE, FALSE, "")>>),
       Answer(TRUE, <<>>), Answer(FALSE, <<>>),
       Answer(TRUE, <<Url("https", 0, "other.example", FALSE, FALSE, "/store")>>) >>

AnswerLists == SeqsUpTo(ResultUrls, MaxResults)

\* The webs of the model: what the first two queries answer, varied freely;
\* the source's own outbound links; what the hosts answer to HEAD and GET.
Webs ==
    { Web(<<Answer(TRUE, a), Answer(TRUE, b), Answer(FALSE, <<>>), Answer(TRUE, <<>>)>>,
          [ok |-> TRUE, links |-> <<>>], AllReachable) :
        a \in AnswerLists, b \in SeqsUpTo(ResultUrls, 1) }
      \cup { Web(DefaultResults,
                 [ok |-> ok, links |-> [i \in 1..Len(ls) |-> OutLink(ls[i], ind)]],
                 AllReachable) :
        ok \in BOOLEAN, ls \in AnswerLists, ind \in BOOLEAN }
      \cup { Web(DefaultResults,
                 [ok |-> TRUE,
                  links |-> <<OutLink(Url("https", 0, "shop.example", FALSE, TRUE,
                                          "/store"), TRUE)>>],
                 [AllReachable EXCEPT !["rival.shop"] = r1, !["other.example"] = r2,
                                      !["shop.example"] = r2]) :
        r1 \in ReachKinds, r2 \in ReachKinds }

IdleWeb == Web(DefaultResults, [ok |-> FALSE, links |-> <<>>], AllReachable)

----------------------------------------------------------------------------
(* find_competitors *)

CompInit ==
    /\ web \in Webs
    /\ source \in SourceUrls
    /\ max_competitors \in 0..MaxRequested
    /\ cpc = "search"
    /\ query = 1
    /\ competitors = <<>>
    /\ cleaned = <<>>
    /\ clog = <<>>
    /\ cresult = None

\* SearchQuery without the test of len(competitors) >= max_competitors
SearchQuery_NoEarlyStop ==
    /\ cpc = "search"
    /\ query <= NumQueries
    /\ competitors' = competitors \o SearchCompetitors(web.results[query], source)
    /\ clog' = clog \o <<(<<"search", query>>), (<<"sleep", 1>>)>>
    /\ IF query = NumQueries
         THEN cpc' = "content" /\ query' = query
         ELSE cpc' = cpc /\ query' = query + 1
    /\ UNCHANGED <<web, source, max_competitors, cleaned, cresult>>
    /\ UNCHANGED <<scrapeVars, otherVars>>

\* One turn of the loop over search_queries: the search, the early stop
\* once max_competitors candidates are collected, else the delay.
SearchQuery ==
    /\ cpc = "search"
    /\ query <= NumQueries
    /\ LET got  == competitors \o SearchCompetitors(web.results[query], source)
           stop == Len(got) >= max_competitors
       IN /\ competitors' = got
          /\ clog' = IF stop THEN Append(clog, <<"search", query>>)
                     ELSE clog \o <<(<<"search", query>>), (<<"sleep", 1>>)>>
          /\ IF stop \/ query = NumQueries
               THEN cpc' = "content" /\ query' = query
               ELSE cpc' = cpc /\ query' = query + 1
    /\ UNCHANGED <<web, source, max_competitors, cleaned, cresult>>
    /\ UNCHANGED <<scrapeVars, otherVars>>

\* _analyze_website_content(website_url), its result appended
AnalyzeContent ==
    /\ cpc = "content"
    /\ competitors' = competitors \o AnalyzeWebsiteContent(web.home, source)
    /\ clog' = Append(clog, <<"get", source>>)
    /\ cpc' = "clean"
    /\ UNCHANGED <<web, source, max_competitors, query, cleaned, cresult>>
    /\ UNCHANGED <<scrapeVars, otherVars>>

CleanAndValidate ==
    /\ cpc = "clean"
    /\ cleaned' = CleanAndValidateUrls(web, competitors)
    /\ clog' = clog \o CleanRequests(web, competitors)
    /\ cpc' = "unique"
    /\ UNCHANGED <<web, source, max_competitors, query, competitors, cresult>>
    /\ UNCHANGED <<scrapeVars, otherVars>>

ReturnUnique ==
    /\ cpc = "unique"
    /\ cresult' = Some(UniqueCompetitors(cleaned, {}, <<>>, max_competitors))
    /\ cpc' = "returned"
    /\ UNCHANGED <<web, source, max_competitors, query, competitors, cleaned, clog>>
    /\ UNCHANGED <<scrapeVars, otherVars>>

----------------------------------------------------------------------------
(* db_service.py: the tables and DatabaseService                            *)
(*                                                                          *)
(* A table is the sequence of its rows in insertion order; the id of a row  *)
(* of brands or competitor_jobs is its index (rows of these two tables are  *)
(* never deleted).  A transaction that raises is rolled back: the tables    *)
(* are as before it.                                                        *)

\* Brand.query.filter_by(website_url=...).first(): the id of the row, 0 for
\* None.
GetBrandByUrl(bs, url) ==
    LET hit == {i \in 1..Len(bs) : bs[i].website_url = url}
    IN IF hit = {} THEN 0 ELSE CHOOSE i \in hit : \A j \in hit : i <= j

\* The columns of brands that save_brand_data sets
BrandRow(ctx) ==
    [ website_url       |-> ctx.website_url,
      brand_name        |-> ctx.brand_name,
      about_brand       |-> ctx.about_brand,
      extraction_status |-> ctx.extraction_status,
      error_message     |-> ctx.error_message,
      extracted_at      |-> ctx.extracted_at ]

\* The child rows save_brand_data adds for a profile, in the order it adds
\* them.
ChildRows(id, ctx) ==
    LET rows(table, vs) ==
            [i \in 1..Len(vs) |-> [table |-> table, brand_id |-> id, value |-> vs[i]]]
    IN rows("products", ctx.product_catalog)
         \o rows("hero_products", ctx.hero_products)
         \o rows("policies", ctx.privacy_policy \o ctx.return_refund_policy)
         \o rows("faqs", ctx.faqs)
         \o rows("social_handles", ctx.social_handles)
         \o rows("contact_info", <<ctx.contact_info>>)
         \o rows("important_links", ctx.important_links)

\* _clear_brand_data deleting nothing
ClearBrandData_KeepAll(rows, id) == rows

\* _clear_brand_data: the rows of the seven child tables of the brand go
ClearBrandData(rows, id) == SelectSeq(rows, LAMBDA r : r.brand_id # id)

\* The commit of save_brand_data, `existing` being what its first query
\* found (0: no row).  brands.website_url is unique: the insert of a second
\* row with the URL raises, and so does any commit when the database fails.
CommitBrandData(bs, rows, ctx, existing, db_ok) ==
    IF ~db_ok \/ (existing = 0 /\ GetBrandByUrl(bs, ctx.website_url) # 0)
    THEN [raised |-> TRUE, brands |-> bs, child_rows |-> rows, id |-> 0]
    ELSE IF existing # 0
    THEN [raised |-> FALSE,
          brands |-> [bs EXCEPT ![existing] = BrandRow(ctx)],
          child_rows |-> ClearBrandData(rows, existing) \o ChildRows(existing, ctx),
          id |-> existing]
    ELSE [raised |-> FALSE,
          brands |-> Append(bs, BrandRow(ctx)),
          child_rows |-> rows \o ChildRows(Len(bs) + 1, ctx),
          id |-> Len(bs) + 1]

\* save_brand_data as one transaction
SaveBrandData(bs, rows, ctx, db_ok) ==
    CommitBrandData(bs, rows, ctx, GetBrandByUrl(bs, ctx.website_url), db_ok)

\* The existence query of add_competitor_relationship
RelationExists(rels, brand_id, competitor_brand_id) ==
    \E i \in 1..Len(rels) :
        /\ rels[i].brand_id = brand_id
        /\ rels[i].competitor_brand_id = competitor_brand_id

\* create_competitor_analysis_job: the new row
NewJob(brand_id) ==
    [brand_id |-> brand_id, status |-> "pending", competitors_found |-> 0,
     error_message |-> None, completed_at |-> None]

\* update_competitor_job_status forgetting completed_at
UpdateJobStatus_NoCompletedAt(js, id, status, found, err) ==
    IF id \notin 1..Len(js) THEN js
    ELSE [js EXCEPT ![id] =
            [@ EXCEPT !.status = status,
                      !.competitors_found = IF IsSome(found) THEN Get(found) ELSE @,
                      !.error_message = IF IsSome(err) THEN err ELSE @]]

\* update_competitor_job_status, when its commit succeeds
UpdateJobStatus(js, id, status, found, err) ==
    IF id \notin 1..Len(js) THEN js
    ELSE [js EXCEPT ![id] =
            [@ EXCEPT !.status = status,
                      !.competitors_found = IF IsSome(found) THEN Get(found) ELSE @,
                      !.error_message = IF IsSome(err) THEN err ELSE @,
                      !.completed_at = IF status \in {"completed", "failed"}
                                       THEN Some("now") ELSE @]]

----------------------------------------------------------------------------
(* routes.py: scrape_form *)

\* The state of a background thread that is to run
\* analyze_competitors_for_brand(brand_id)
NewThread(brand_id) ==
    [ pc |-> "start", brand_id |-> brand_id, job |-> 0, urls |-> <<>>, idx |-> 1,
      existing |-> 0, data |-> None, competitor |-> 0, found |-> 0,
      log |-> <<>>, result |-> None ]

\* What the form field website_url may hold: a scheme ("" when the string
\* starts with neither http:// nor https://), a host and a trailing slash.
\* The host "shop example" is one no URL validation accepts.
FormUrls == [scheme : {"", "http", "https"}, host : Hosts \cup {"shop example"},
             slash : BOOLEAN]

\* if not website_url.startswith(('http://', 'https://')):
\*     website_url = 'https://' + website_url
AddProtocol(u) == IF u.scheme = "" THEN [u EXCEPT !.scheme = "https"] ELSE u

\* ScrapingRequest(website_url=...): the HttpUrl type and validate_url
ScrapingRequestAccepts(u) == u.scheme \in {"http", "https"} /\ u.host \in Hosts

\* scrape_form handing the form field to the scraper as it was submitted
ScrapeForm_NoProtocolAdded ==
    /\ fpc = "request"
    /\ IsSome(form.website_url)
    /\ input_url' = Get(form.website_url)
    /\ brand_context' = BrandContext(BaseUrl(input_url'), "success", None)
    /\ pc' = "start"
    /\ fpc' = "scraping"
    /\ UNCHANGED <<site, page, products, requests, result, form, fresponse>>
    /\ UNCHANGED <<compVars, dbVars, batchVars>>

\* scrape_form up to the call of scrape_store: the empty field, the added
\* protocol, the validation, the construction of the scraper.  HttpUrl(...)
\* called with the string alone raises a TypeError with pydantic 1 (the
\* handler's outer except answers) and validates with pydantic 2.
ScrapeForm ==
    /\ fpc = "request"
    /\ IF form.website_url = None
         THEN /\ fresponse' = Some("missing_url") /\ fpc' = "done"
              /\ UNCHANGED <<input_url, brand_context, pc>>
         ELSE LET website_url == AddProtocol(Get(form.website_url))
              IN \E callable \in BOOLEAN :
                   IF ~callable
                   THEN /\ fresponse' = Some("error") /\ fpc' = "done"
                        /\ UNCHANGED <<input_url, brand_context, pc>>
                   ELSE IF ~ScrapingRequestAccepts(website_url)
                   THEN /\ fresponse' = Some("invalid_url") /\ fpc' = "done"
                        /\ UNCHANGED <<input_url, brand_context, pc>>
                   ELSE /\ input_url' = website_url
                        /\ brand_context' =
                             BrandContext(BaseUrl(website_url), "success", None)
                        /\ pc' = "start"
                        /\ fpc' = "scraping"
                        /\ fresponse' = fresponse
    /\ UNCHANGED <<site, page, products, requests, result, form>>
    /\ UNCHANGED <<compVars, dbVars, batchVars>>

\* scrape_form after scrape_store has returned: the status test, the save,
\* the start of the background analysis.
ScrapeFormSave ==
    /\ fpc = "scraping"
    /\ pc = "returned"
    /\ fpc' = "done"
    /\ IF Get(result).extraction_status = "error"
         THEN /\ fresponse' = Some("scraping_failed")
              /\ UNCHANGED <<brands, child_rows, threads>>
         ELSE \E db_ok \in BOOLEAN :
                LET saved == SaveBrandData(brands, child_rows, Get(result), db_ok)
                IN /\ brands' = saved.brands
                   /\ child_rows' = saved.child_rows
                   /\ IF saved.raised
                        THEN fresponse' = Some("save_failed") /\ threads' = threads
                        ELSE IF form.include_competitors
                        THEN /\ threads' = Append(threads, NewThread(saved.id))
                             /\ fresponse' = Some("competitor_analysis_ui")
                        ELSE fresponse' = Some("results") /\ threads' = threads
    /\ UNCHANGED <<scrapeVars, compVars, form, relations, jobs, faults>>

\* A profile stored by an earlier request
StoredProfile(url) ==
    [BrandContext(url, "success", None) EXCEPT
       !.brand_name = Some("Old"),
       !.faqs = <<[question |-> 8, answer |-> 20, src |-> <<"/faq", 1>>]>>]

FormSites ==
    { DefaultSite, [DefaultSite EXCEPT !.home_ok = FALSE],
      [DefaultSite EXCEPT
         !.link_anchors = <<LinkAnchor("http://[", TRUE, TRUE, LinkTexts[2])>>] }

\* A submitted form, a storefront, and a database that is empty or holds an
\* earlier profile of the storefront.
FormInit ==
    /\ form \in [website_url : {None} \cup {Some(u) : u \in FormUrls},
                 include_competitors : BOOLEAN]
    /\ fpc = "request"
    /\ fresponse = None
    /\ site \in FormSites
    /\ input_url = [scheme |-> "https", host |-> "shop.example", slash |-> FALSE]
    /\ pc = "idle"
    /\ brand_context = BrandContext(BaseUrl(input_url), "success", None)
    /\ page = 1
    /\ products = <<>>
    /\ requests = <<>>
    /\ result = None
    /\ \E old \in {None, Some(StoredProfile([scheme |-> "https", host |-> "shop.example",
                                             slash |-> FALSE]))} :
         LET db == IF old = None
                   THEN [brands |-> <<>>, child_rows |-> <<>>]
                   ELSE SaveBrandData(<<>>, <<>>, Get(old), TRUE)
         IN brands = db.brands /\ child_rows = db.child_rows
    /\ relations = <<>>
    /\ jobs = <<>>

----------------------------------------------------------------------------
(* competitor_analysis.py: analyze_competitors_for_brand                    *)
(*                                                                          *)
(* Each element of threads is one call of it, running in a thread of its    *)
(* own on the shared database.  A step is what the call does between two of *)
(* its database transactions.  Any database operation may raise; at most    *)
(* MaxFaults of them do in one behaviour.                                   *)

\* max_competitors=3 in the call of find_competitors
BatchMaxCompetitors == 3

\* The loop over search_queries of find_competitors
RECURSIVE SearchLoop(_, _, _, _, _)
SearchLoop(w, original, max, q, acc) ==
    LET got == acc \o SearchCompetitors(w.results[q], original)
    IN IF Len(got) >= max \/ q = NumQueries THEN got
       ELSE SearchLoop(w, original, max, q + 1, got)

\* find_competitors as a function of the web
FindCompetitors(w, original, max) ==
    LET found == SearchLoop(w, original, max, 1, <<>>)
                   \o AnalyzeWebsiteContent(w.home, original)
    IN UniqueCompetitors(CleanAndValidateUrls(w, found), {}, <<>>, max)

\* ShopifyScraper.__init__: base_url.rstrip('/')
RstripSlash(u) == IF u.path = "/" THEN [u EXCEPT !.path = ""] ELSE u

\* ShopifyScraper(competitor_url).scrape_store(): a profile of the storefront
\* when its homepage answers, the bare error profile when it does not.
ScrapeCompetitor(w, u) ==
    IF w.reach[u.name].get = "ok"
    THEN [BrandContext(RstripSlash(u), "success", None) EXCEPT
            !.brand_name = Some(u.name)]
    ELSE BrandContext(RstripSlash(u), "error", Some("Failed to load homepage"))

\* What a database operation may do next: succeed, or raise
DbOutcomes == IF faults < MaxFaults THEN BOOLEAN ELSE {TRUE}

Faulted(db_ok) == faults' = IF db_ok THEN faults ELSE faults + 1

\* The thread after one turn of the loop over competitor_urls: ok when the
\* turn reached scraped_competitors.append, else the except branch logged.
AfterCandidate_Reraise(th, ok) ==
    IF ok
    THEN [th EXCEPT !.idx = @ + 1, !.found = @ + 1,
                    !.log = Append(@, <<"candidate", th.idx, ok>>),
                    !.pc = IF th.idx >= Len(th.urls) THEN "complete" ELSE "lookup"]
    ELSE [th EXCEPT !.log = Append(@, <<"candidate", th.idx, ok>>), !.pc = "fail"]

AfterCandidate(th, ok) ==
    [th EXCEPT !.idx = @ + 1,
               !.found = IF ok THEN @ + 1 ELSE @,
               !.log = Append(@, <<"candidate", th.idx, ok>>),
               !.pc = IF th.idx >= Len(th.urls) THEN "complete" ELSE "lookup"]

\* The outer except branch: the dictionary with status failed
Failed(th) == [th EXCEPT !.pc = "returned", !.result = Some("failed")]

\* Brand.query.get(brand_id) and create_competitor_analysis_job(brand_id)
CreateJob(t) ==
    /\ threads[t].pc = "start"
    /\ \E db_ok \in DbOutcomes :
         /\ Faulted(db_ok)
         /\ IF threads[t].brand_id \notin 1..Len(brands) \/ ~db_ok
              THEN /\ threads' = [threads EXCEPT ![t] = Failed(@)]
                   /\ jobs' = jobs
              ELSE /\ jobs' = Append(jobs, NewJob(threads[t].brand_id))
                   /\ threads' = [threads EXCEPT ![t] =
                        [@ EXCEPT !.pc = "running", !.job = Len(jobs) + 1,
                                  !.log = Append(@, <<"created">>)]]
    /\ UNCHANGED <<scrapeVars, compVars, formVars, brands, child_rows, relations>>

\* update_competitor_job_status(job.id, 'running')
SetRunning(t) ==
    /\ threads[t].pc = "running"
    /\ \E db_ok \in DbOutcomes :
         /\ Faulted(db_ok)
         /\ IF db_ok
              THEN /\ jobs' = UpdateJobStatus(jobs, threads[t].job, "running", None, None)
                   /\ threads' = [threads EXCEPT ![t] =
                        [@ EXCEPT !.pc = "find", !.log = Append(@, <<"running">>)]]
              ELSE /\ jobs' = jobs
                   /\ threads' = [threads EXCEPT ![t] = [@ EXCEPT !.pc = "fail"]]
    /\ UNCHANGED <<scrapeVars, compVars, formVars, brands, child_rows, relations>>

\* find_competitors(..., brand.website_url, max_competitors=3)
FindStep(t) ==
    /\ threads[t].pc = "find"
    /\ LET urls == FindCompetitors(web, brands[threads[t].brand_id].website_url,
                                   BatchMaxCompetitors)
       IN threads' = [threads EXCEPT ![t] =
            [@ EXCEPT !.urls = urls, !.idx = 1,
                      !.log = Append(@, <<"search">>),
                      !.pc = IF urls = <<>> THEN "complete" ELSE "lookup"]]
    /\ UNCHANGED <<scrapeVars, compVars, formVars, dbVars, faults>>

\* get_brand_by_url(competitor_url)
Lookup(t) ==
    /\ threads[t].pc = "lookup"
    /\ \E db_ok \in DbOutcomes :
         /\ Faulted(db_ok)
         /\ LET th == threads[t]
                existing == GetBrandByUrl(brands, th.urls[th.idx])
            IN threads' = [threads EXCEPT ![t] =
                 IF ~db_ok THEN AfterCandidate(th, FALSE)
                 ELSE IF existing # 0
                 THEN [th EXCEPT !.competitor = existing, !.pc = "relate"]
                 ELSE [th EXCEPT !.pc = "scrape"]]
    /\ UNCHANGED <<scrapeVars, compVars, formVars, dbVars>>

\* scrape_store on the candidate, then save_brand_data up to its first query
ScrapeCandidate(t) ==
    /\ threads[t].pc = "scrape"
    /\ \E db_ok \in DbOutcomes :
         /\ Faulted(db_ok)
         /\ LET th == threads[t]
                data == ScrapeCompetitor(web, th.urls[th.idx])
            IN threads' = [threads EXCEPT ![t] =
                 IF ~db_ok THEN AfterCandidate(th, FALSE)
                 ELSE [th EXCEPT !.data = Some(data), !.pc = "commit",
                                 !.existing = GetBrandByUrl(brands, data.website_url)]]
    /\ UNCHANGED <<scrapeVars, compVars, formVars, dbVars>>

\* save_brand_data from its first query to its commit
CommitCandidate(t) ==
    /\ threads[t].pc = "commit"
    /\ \E db_ok \in DbOutcomes :
         /\ Faulted(db_ok)
         /\ LET th == threads[t]
                saved == CommitBrandData(brands, child_rows, Get(th.data),
                                         th.existing, db_ok)
            IN /\ brands' = saved.brands
               /\ child_rows' = saved.child_rows
               /\ threads' = [threads EXCEPT ![t] =
                    IF saved.raised THEN AfterCandidate(th, FALSE)
                    ELSE [th EXCEPT !.competitor = saved.id, !.pc = "relate"]]
    /\ UNCHANGED <<scrapeVars, compVars, formVars, relations, jobs>>

\* add_competitor_relationship: the query for the pair
RelateCheck(t) ==
    /\ threads[t].pc = "relate"
    /\ \E db_ok \in DbOutcomes :
         /\ Faulted(db_ok)
         /\ LET th == threads[t]
            IN threads' = [threads EXCEPT ![t] =
                 IF ~db_ok THEN AfterCandidate(th, FALSE)
                 ELSE IF RelationExists(relations, th.brand_id, th.competitor)
                 THEN AfterCandidate(th, TRUE)
                 ELSE [th EXCEPT !.pc = "insert"]]
    /\ UNCHANGED <<scrapeVars, compVars, formVars, dbVars>>

\* add_competitor_relationship: the insert and its commit
RelateInsert(t) ==
    /\ threads[t].pc = "insert"
    /\ \E db_ok \in DbOutcomes :
         /\ Faulted(db_ok)
         /\ LET th == threads[t]
            IN /\ relations' =
                    IF db_ok
                    THEN Append(relations,
                                [brand_id |-> th.brand_id,
                                 competitor_brand_id |-> th.competitor,
                                 discovered_via |-> "web_search"])
                    ELSE relations
               /\ threads' = [threads EXCEPT ![t] = AfterCandidate(th, db_ok)]
    /\ UNCHANGED <<scrapeVars, compVars, formVars, brands, child_rows, jobs>>

\* update_competitor_job_status(job.id, 'completed', competitors_found=...)
Complete(t) ==
    /\ threads[t].pc = "complete"
    /\ \E db_ok \in DbOutcomes :
         /\ Faulted(db_ok)
         /\ LET th == threads[t]
            IN IF db_ok
               THEN /\ jobs' = UpdateJobStatus(jobs, th.job, "completed",
                                               Some(th.found), None)
                    /\ threads' = [threads EXCEPT ![t] =
                         [th EXCEPT !.pc = "returned", !.result = Some("completed"),
                                    !.log = Append(@, <<"completed">>)]]
               ELSE /\ jobs' = jobs
                    /\ threads' = [threads EXCEPT ![t] = [th EXCEPT !.pc = "fail"]]
    /\ UNCHANGED <<scrapeVars, compVars, formVars, brands, child_rows, relations>>

\* The inner except branch: update_competitor_job_status(job.id, 'failed',
\* error_message=...), then the exception goes on to the outer one.
FailJob(t) ==
    /\ threads[t].pc = "fail"
    /\ \E db_ok \in DbOutcomes :
         /\ Faulted(db_ok)
         /\ LET th == threads[t]
            IN /\ jobs' = IF db_ok
                          THEN UpdateJobStatus(jobs, th.job, "failed", None,
                                               Some("error"))
                          ELSE jobs
               /\ threads' = [threads EXCEPT ![t] =
                    Failed([th EXCEPT !.log = IF db_ok THEN Append(@, <<"failed">>) ELSE @])]
    /\ UNCHANGED <<scrapeVars, compVars, formVars, brands, child_rows, relations>>

\* The stored URLs of the two storefronts that have batches started
ShopUrl == Url("https", 0, "shop.example", FALSE, FALSE, "")

RivalUrl == Url("https", 0, "rival.shop", FALSE, FALSE, "")

\* The webs the batches meet.  The second one answers with the stored URL of
\* each storefront, as stored and with a trailing slash, and with the
\* storefront reached through its port; in the third, rival.shop and
\* other.example answer a HEAD but fail to answer a GET; the fourth finds
\* nothing.
BatchWebs ==
    { IdleWeb,
      Web(<<Answer(TRUE, <<ShopUrl, [RivalUrl EXCEPT !.path = "/"]>>),
            Answer(TRUE, <<[ShopUrl EXCEPT !.path = "/"],
                           Url("https", 0, "shop.example", FALSE, TRUE, "/store")>>),
            Answer(FALSE, <<>>), Answer(TRUE, <<RivalUrl>>)>>,
          [ok |-> FALSE, links |-> <<>>], AllReachable),
      Web(DefaultResults, [ok |-> FALSE, links |-> <<>>],
          [AllReachable EXCEPT !["rival.shop"] = [head |-> "ok", get |-> "error"],
                               !["other.example"] = [head |-> "ok", get |-> "error"]]),
      Web(<<Answer(FALSE, <<>>), Answer(TRUE, <<>>), Answer(FALSE, <<>>),
            Answer(TRUE, <<>>)>>,
          [ok |-> FALSE, links |-> <<>>], AllReachable) }

\* The brand ids the started batches are for; id 3 is of no stored brand.
\* Two batches of the same brand are two requests to analyze_competitors.
BatchSetups == {<<1>>, <<2>>, <<3>>, <<1, 1>>, <<1, 2>>}

\* The database holds the profile of shop.example (id 1) and of rival.shop
\* (id 2), saved by earlier requests.
BatchInit ==
    /\ web \in BatchWebs
    /\ source = ShopUrl
    /\ max_competitors = BatchMaxCompetitors
    /\ cpc = "idle"
    /\ query = 1
    /\ competitors = <<>>
    /\ cleaned = <<>>
    /\ clog = <<>>
    /\ cresult = None
    /\ LET one == SaveBrandData(<<>>, <<>>, StoredProfile(ShopUrl), TRUE)
           two == SaveBrandData(one.brands, one.child_rows, StoredProfile(RivalUrl),
                                TRUE)
       IN brands = two.brands /\ child_rows = two.child_rows
    /\ relations = <<>>
    /\ jobs = <<>>
    /\ \E ids \in BatchSetups : threads = [i \in 1..Len(ids) |-> NewThread(ids[i])]
    /\ faults = 0

----------------------------------------------------------------------------
(* Calls of save_brand_data by the request handlers                         *)
(*                                                                          *)
(* Each handler that has scraped a storefront saves the profile; handlers   *)
(* of different requests run concurrently.  An element of threads is here   *)
(* one call of save_brand_data: "save" between its first query and its      *)
(* commit, then "saved" or "raised".                                        *)

\* The profiles the handlers save: for each of two storefronts an earlier
\* profile, a newer one with other FAQs, and the bare error profile.
SaveProfiles ==
    UNION { { StoredProfile(u),
              [BrandContext(u, "success", None) EXCEPT
                 !.brand_name = Some("New"),
                 !.faqs = << [question |-> 9, answer |-> 30, src |-> <<"/faq", 1>>],
                             [question |-> 12, answer |-> 40, src |-> <<"/faq", 2>>] >>],
              BrandContext(u, "error", Some("Failed to load homepage")) } :
            u \in {ShopUrl, RivalUrl} }

\* save_brand_data up to its first query
BeginSave ==
    /\ Len(threads) < MaxSaves
    /\ \E ctx \in SaveProfiles, db_ok \in DbOutcomes :
         /\ Faulted(db_ok)
         /\ threads' = Append(threads,
              [NewThread(0) EXCEPT
                 !.pc = IF db_ok THEN "save" ELSE "raised",
                 !.data = Some(ctx),
                 !.existing = IF db_ok THEN GetBrandByUrl(brands, ctx.website_url)
                              ELSE 0])
    /\ UNCHANGED <<scrapeVars, compVars, formVars, dbVars>>

\* save_brand_data from its first query to its commit or its rollback
CommitSave(t) ==
    /\ threads[t].pc = "save"
    /\ \E db_ok \in DbOutcomes :
         /\ Faulted(db_ok)
         /\ LET th == threads[t]
                saved == CommitBrandData(brands, child_rows, Get(th.data),
                                         th.existing, db_ok)
            IN /\ brands' = saved.brands
               /\ child_rows' = saved.child_rows
               /\ threads' = [threads EXCEPT ![t] =
                    IF saved.raised THEN [th EXCEPT !.pc = "raised"]
                    ELSE [th EXCEPT !.pc = "saved", !.competitor = saved.id]]
    /\ UNCHANGED <<scrapeVars, compVars, formVars, relations, jobs>>

----------------------------------------------------------------------------
(* Specifications *)

ScrapeIdle ==
    /\ site = DefaultSite
    /\ input_url = [scheme |-> "https", host |-> "shop.example", slash |-> FALSE]
    /\ pc = "idle"
    /\ brand_context = BrandContext(BaseUrl(input_url), "success", None)
    /\ page = 1
    /\ products = <<>>
    /\ requests = <<>>
    /\ result = None

CompIdle ==
    /\ web = IdleWeb
    /\ source = Url("https", 0, "shop.example", FALSE, FALSE, "")
    /\ max_competitors = 0
    /\ cpc = "idle"
    /\ query = 1
    /\ competitors = <<>>
    /\ cleaned = <<>>
    /\ clog = <<>>
    /\ cresult = None

FormIdle ==
    /\ form = [website_url |-> None, include_competitors |-> FALSE]
    /\ fpc = "idle"
    /\ fresponse = None

DbIdle ==
    /\ brands = <<>>
    /\ child_rows = <<>>
    /\ relations = <<>>
    /\ jobs = <<>>

BatchIdle ==
    /\ threads = <<>>
    /\ faults = 0

\* One run of scrape_store
Init == ScrapeInit /\ CompIdle /\ FormIdle /\ DbIdle /\ BatchIdle

Next ==
    \/ FetchHomepage
    \/ BrandName
    \/ CatalogPage
    \/ HeroProductsStep
    \/ PrivacyPolicy
    \/ ReturnPolicy
    \/ Faqs
    \/ SocialHandles
    \/ ContactInfo
    \/ AboutBrand
    \/ ImportantLinks

Spec == Init /\ [][Next]_vars

\* One call of find_competitors
InitCompetitors == CompInit /\ ScrapeIdle /\ FormIdle /\ DbIdle /\ BatchIdle

NextCompetitors ==
    \/ SearchQuery
    \/ AnalyzeContent
    \/ CleanAndValidate
    \/ ReturnUnique

SpecCompetitors == InitCompetitors /\ [][NextCompetitors]_vars

\* One request to scrape_form
InitForm == FormInit /\ CompIdle /\ BatchIdle

NextForm ==
    \/ ScrapeForm
    \/ Next
    \/ ScrapeFormSave

SpecForm == InitForm /\ [][NextForm]_vars

\* The started calls of analyze_competitors_for_brand, each in its thread
InitBatch == BatchInit /\ ScrapeIdle /\ FormIdle

NextBatch ==
    \/ \E t \in DOMAIN threads : CreateJob(t)
    \/ \E t \in DOMAIN threads : SetRunning(t)
    \/ \E t \in DOMAIN threads : FindStep(t)
    \/ \E t \in DOMAIN threads : Lookup(t)
    \/ \E t \in DOMAIN threads : ScrapeCandidate(t)
    \/ \E t \in DOMAIN threads : CommitCandidate(t)
    \/ \E t \in DOMAIN threads : RelateCheck(t)
    \/ \E t \in DOMAIN threads : RelateInsert(t)
    \/ \E t \in DOMAIN threads : Complete(t)
    \/ \E t \in DOMAIN threads : FailJob(t)

SpecBatch == InitBatch /\ [][NextBatch]_vars

\* Calls of save_brand_data on a database that starts empty
InitSave == ScrapeIdle /\ CompIdle /\ FormIdle /\ DbIdle /\ BatchIdle

NextSave ==
    \/ BeginSave
    \/ \E t \in DOMAIN threads : CommitSave(t)

SpecSave == InitSave /\ [][NextSave]_vars

----------------------------------------------------------------------------
(* Properties of scrape_store *)

\* _extract_product_catalog has run and returned
CatalogDone == site.home_ok /\ pc \notin {"idle", "start", "brand_name", "catalog"}

\* The page indices requested of the catalog endpoint, in order
CatalogRequests ==
    LET rs == SelectSeq(requests, LAMBDA r : r[1] = "catalog")
    IN [i \in 1..Len(rs) |-> rs[i][2]]

\* C1: when the homepage fetch fails, scrape_store returns a profile with
\* status "error" that carries the website URL and the timestamp and no
\* extracted field: name, about text and policies absent, every list and the
\* contact info empty.
C1_HomepageFailureGivesBareError ==
    (pc = "returned" /\ ~site.home_ok) =>
        /\ IsSome(result)
        /\ Get(result).extraction_status = "error"
        /\ Get(result).website_url = base_url
        /\ Get(result).extracted_at = "now"
        /\ Get(result).brand_name = None
        /\ Get(result).about_brand = None
        /\ Get(result).privacy_policy = None
        /\ Get(result).return_refund_policy = None
        /\ Get(result).product_catalog = <<>>
        /\ Get(result).hero_products = <<>>
        /\ Get(result).faqs = <<>>
        /\ Get(result).social_handles = <<>>
        /\ Get(result).important_links = <<>>
        /\ Get(result).contact_info.emails = {}
        /\ Get(result).contact_info.phones = {}
        /\ requests = <<(<<"homepage", "/">>)>>

C1_Witness == pc = "returned" /\ ~site.home_ok /\ IsSome(result)

\* C2: the returned status is "error" if and only if the homepage fetch
\* failed; a failure inside a field extractor never aborts the run.
C2_ErrorOnlyOnHomepageFailure ==
    pc = "returned" =>
        (Get(result).extraction_status = "error" <=> ~site.home_ok)

\* C3: no exception leaves scrape_store: a run is at one of its steps or has
\* returned, never ended by an exception, and what it returns carries the
\* website URL, a timestamp and a status.
C3_AlwaysStructuredResult ==
    /\ pc \in {"start", "brand_name", "catalog", "hero", "privacy", "return",
               "faqs", "social", "contact", "about", "links", "returned"}
    /\ pc = "returned" =>
          /\ IsSome(result)
          /\ Get(result).website_url = base_url
          /\ Get(result).extracted_at = "now"
          /\ Get(result).extraction_status \in {"success", "error"}

C3_Witness ==
    /\ pc = "returned"
    /\ site.home_ok
    /\ ImportantLinksRaise(site.link_anchors)
    /\ Get(result).extraction_status = "error"

\* C4: against an endpoint serving N full pages of well-formed products and
\* then a page of k < 250, the pages 1..N+1 are requested in order, each
\* once, and the catalog is the N*250 + k products in page order.
C4_PaginationCount ==
    (CatalogDone /\ site.endpoint.last = "short"
                 /\ site.endpoint.special.kind = "object") =>
        /\ CatalogRequests = [i \in 1..site.endpoint.full + 1 |-> i]
        /\ Len(products) = site.endpoint.full * 250 + site.endpoint.k
        /\ \A n \in 1..Len(products) :
              products[n].id = <<((n - 1) \div 250) + 1, ((n - 1) % 250) + 1>>

C4_Witness ==
    /\ CatalogDone
    /\ site.endpoint.full = 3
    /\ site.endpoint.last = "short"
    /\ site.endpoint.k = 10
    /\ Len(products) = 760
    /\ CatalogRequests = <<1, 2, 3, 4>>

\* Is the special entry of the endpoint on one of its pages, and malformed?
MalformedOnPage(ep) ==
    /\ ep.special.kind # "object"
    /\ ep.sp_page <= ep.full + 1
    /\ ep.sp_idx <= PageLen(ep, ep.sp_page)

\* C5: a malformed entry is skipped and aborts neither its page nor the
\* pagination: every other entry of every page is in the catalog, and the
\* page-length test still decides whether the next page is requested.
C5_MalformedEntryOnlySkipped ==
    (CatalogDone /\ site.endpoint.last = "short") =>
        /\ Len(products) = site.endpoint.full * PageSize + site.endpoint.k
                             - (IF MalformedOnPage(site.endpoint) THEN 1 ELSE 0)
        /\ CatalogRequests = [i \in 1..site.endpoint.full + 1 |-> i]

C7_ListCaps ==
    pc = "returned" =>
        /\ Len(Get(result).hero_products) <= 5
        /\ Len(Get(result).important_links) <= 10
        /\ Len(Get(result).faqs) <= 10

C7_Witness ==
    /\ pc = "returned"
    /\ Cardinality(HeroLinks(site.hero).links) > 5
    /\ Len(Get(result).hero_products) = 5
    /\ Len(RawImportantLinks(site.link_anchors)) > 10
    /\ Len(Get(result).important_links) = 10
    /\ Len(PageOf(site, "/pages/faq").qa) > 10
    /\ Len(Get(result).faqs) = 10

\* C8: in a returned profile each policy's content has at most 2000
\* characters and the about text at most 1000, whichever source gave it.
C8_TextCaps ==
    pc = "returned" =>
        /\ IsSome(Get(result).privacy_policy) =>
              Get(Get(result).privacy_policy).content <= 2000
        /\ IsSome(Get(result).return_refund_policy) =>
              Get(Get(result).return_refund_policy).content <= 2000
        /\ IsSome(Get(result).about_brand) => Get(Get(result).about_brand) <= 1000

NoTwoWithSameUrl(es) ==
    \A i, j \in 1..Len(es) : es[i].url = es[j].url => i = j

\* Every kept entry is the first raw entry with its URL, and the kept
\* entries stand in the order of those first entries.
FirstOfEachUrl(kept, raw) ==
    /\ \A i \in 1..Len(kept) :
          \E j \in 1..Len(raw) :
              /\ raw[j] = kept[i]
              /\ \A k \in 1..j - 1 : raw[k].url # kept[i].url
    /\ \A u \in {raw[j].url : j \in 1..Len(raw)} :
          Len(kept) < Cardinality({raw[j].url : j \in 1..Len(raw)})
              \/ \E i \in 1..Len(kept) : kept[i].url = u

\* C9: the returned social handles hold no URL twice, the returned important
\* links hold no URL twice, and of the entries with one URL the first in
\* document order is the one kept.
C9_UniqueByUrl ==
    (pc = "returned" /\ Get(result).extraction_status = "success") =>
        /\ NoTwoWithSameUrl(Get(result).social_handles)
        /\ NoTwoWithSameUrl(Get(result).important_links)
        /\ FirstOfEachUrl(Get(result).social_handles, RawSocialHandles(site.social))
        /\ FirstOfEachUrl(Get(result).important_links,
                          RawImportantLinks(site.link_anchors))

C9_Witness ==
    /\ pc = "returned"
    /\ \E i, j \in 1..Len(site.social) : i < j /\ site.social[i] = site.social[j]
    /\ \E i, j \in 1..Len(site.link_anchors) :
          i < j /\ i <= 10 /\ site.link_anchors[i] = site.link_anchors[j]
    /\ Len(Get(result).social_handles) < Len(RawSocialHandles(site.social))
    /\ Len(Get(result).important_links) = 10

----------------------------------------------------------------------------
(* Properties of find_competitors *)

\* The host of a URL, lower-cased, as its number of "www." labels and the rest
HostOf(u) == [www |-> u.www, name |-> u.name]

\* C10: for a source whose host, without a leading "www.", is D, no returned
\* URL has the host D or www.D.
C10_NeverSelfReferential ==
    cpc = "returned" =>
        LET d == [www |-> IF source.www > 0 THEN source.www - 1 ELSE 0,
                  name |-> source.name]
        IN \A i \in 1..Len(Get(cresult)) :
              /\ HostOf(Get(cresult)[i]) # d
              /\ HostOf(Get(cresult)[i]) # [d EXCEPT !.www = d.www + 1]

\* C11: the list find_competitors returns never has more than max_competitors
\* entries, however many candidates the queries and the content scan gave.
C11_AtMostMaxCompetitors ==
    cpc = "returned" => Len(Get(cresult)) <= max_competitors

\* The query loop stopped early, the content scan still added a candidate,
\* more domains than asked for were reachable, and the result is full.
C11_Witness ==
    /\ cpc = "returned"
    /\ max_competitors > 0
    /\ query < NumQueries
    /\ AnalyzeWebsiteContent(web.home, source) # <<>>
    /\ Cardinality({ExtractDomain(cleaned[i]) : i \in 1..Len(cleaned)}) > max_competitors
    /\ Len(Get(cresult)) = max_competitors

\* The domain of a URL's host: lower-cased, one leading "www." stripped
DomainOfHost(u) == [www |-> IF u.www > 0 THEN u.www - 1 ELSE 0, name |-> u.name]

\* C12: every URL find_competitors returns starts with http:// or https://,
\* has a domain other than the source's, a domain on no entry of the denylist,
\* and holds an e-commerce vocabulary token.
C12_ReturnedPassedFilter ==
    cpc = "returned" =>
        \A i \in 1..Len(Get(cresult)) :
            LET u == Get(cresult)[i]
            IN /\ u.scheme \in {"http", "https"}
               /\ DomainOfHost(u) # DomainOfHost(source)
               /\ ~SkipDomain(ExtractDomain(u))
               /\ HasEcommerceIndicator(u)

----------------------------------------------------------------------------
(* Properties of the FAQ and policy extractors *)

\* The candidate of the storefront an emitted FAQ entry was made from
FaqSource(f) == PageOf(site, f.src[1]).qa[f.src[2]]

\* C13: every FAQ entry the extractor emits has a question longer than 5
\* characters and an answer longer than 10, the answer being what is left of
\* the answer text once the question text is taken out of it.
C13_FaqFloors ==
    \A i \in 1..Len(brand_context.faqs) :
        LET f == brand_context.faqs[i]
            c == FaqSource(f)
        IN /\ f.question > 5
           /\ f.answer > 10
           /\ f.question = Get(c.q)
           /\ f.answer = Get(c.a) - (IF c.occ > 0 THEN c.occ * Get(c.q) + c.ws ELSE 0)

\* A page with a candidate whose answer is long enough only before the
\* question is taken out, which is not emitted, and one that is emitted with
\* the shortened answer.
C13_Witness ==
    /\ pc = "returned"
    /\ PageOf(site, "/pages/faq").ok
    /\ \E c \in Range(PageOf(site, "/pages/faq").qa) :
          /\ IsSome(c.q) /\ IsSome(c.a) /\ Get(c.q) > 5 /\ Get(c.a) > 10
          /\ c.occ > 0
          /\ \A i \in 1..Len(Get(result).faqs) : FaqSource(Get(result).faqs[i]) # c
    /\ \E i \in 1..Len(Get(result).faqs) :
          /\ Get(result).faqs[i].src[1] = "/pages/faq"
          /\ Get(result).faqs[i].answer < Get(FaqSource(Get(result).faqs[i]).a)

\* Is the policy the claim describes the one returned?  Of the candidates
\* fetched (the first three), the first whose content is longer than 100
\* characters gives the policy, its content cut only beyond 2000; every
\* candidate before it was fetched and rejected; without such a candidate
\* there is no policy.
PolicyAsClaimed(type, anchors, policy) ==
    IF AnchorCandidates(anchors, PolicyTerms(type)).raised THEN policy = None
    ELSE LET cands == Take(PolicyLinks(type, anchors), 3)
             len(i) == FirstSel(PageOf(site, cands[i]))
             good  == {i \in 1..Len(cands) :
                         /\ PageOf(site, cands[i]).ok
                         /\ IsSome(len(i)) /\ Get(len(i)) > 100}
         IN IF good = {} THEN policy = None
            ELSE LET k == CHOOSE i \in good : \A j \in good : i <= j
                 IN /\ IsSome(policy)
                    /\ Get(policy).url = cands[k]
                    /\ Get(policy).content =
                          (IF Get(len(k)) > 2000 THEN 2000 ELSE Get(len(k)))
                    /\ \A j \in 1..k : <<"policy", cands[j]>> \in Range(requests)

----------------------------------------------------------------------------
(* Properties of scrape_form *)

\* C15: a form input without protocol gets https:// in front before any
\* fetch: every request made for it (each is resolved against base_url) goes
\* to https://<input> or below, none
\* to the string as submitted; an input that fails the validation is
\* rejected before any fetch.
C15_ProtocolAddedBeforeFetch ==
    /\ requests # <<>> =>
          /\ IsSome(form.website_url)
          /\ base_url.scheme \in {"http", "https"}
          /\ base_url.host = Get(form.website_url).host
          /\ Get(form.website_url).scheme = "" => base_url.scheme = "https"
          /\ Get(form.website_url).scheme # "" =>
                base_url.scheme = Get(form.website_url).scheme
    /\ fresponse \in {Some("missing_url"), Some("invalid_url"), Some("error")} =>
          requests = <<>>
    /\ (IsSome(form.website_url) /\ Get(form.website_url).host \notin Hosts) =>
          requests = <<>>

C15_Witness ==
    /\ form.website_url = Some([scheme |-> "", host |-> "shop.example", slash |-> FALSE])
    /\ fpc = "done"
    /\ fresponse = Some("results")
    /\ Len(requests) > 1
    /\ base_url = [scheme |-> "https", host |-> "shop.example", slash |-> FALSE]

----------------------------------------------------------------------------
(* Properties of analyze_competitors_for_brand and of DatabaseService *)

\* The thread whose call created job j
ThreadOfJob(j) == CHOOSE t \in DOMAIN threads : threads[t].job = j

\* The turns of the loop over competitor_urls a thread has finished
CandidatesProcessed(th) ==
    Len(SelectSeq(th.log, LAMBDA e : e[1] = "candidate"))

TerminalStatus == {"completed", "failed"}

\* The steps of a call that lie inside the loop over competitor_urls
CandidatePcs == {"lookup", "scrape", "commit", "relate", "insert"}

C16_JobState(j) ==
    LET job == jobs[j]
        th  == threads[ThreadOfJob(j)]
    IN /\ \E t \in DOMAIN threads : threads[t].job = j
       /\ job.status \in {"pending", "running"} \cup TerminalStatus
       /\ th.pc = "running" => job.status = "pending"
       /\ th.pc = "find" \/ th.pc \in CandidatePcs => job.status = "running"
       /\ <<"search">> \in Range(th.log) => job.status # "pending"
       /\ job.status = "completed" =>
            /\ <<"search">> \in Range(th.log)
            /\ CandidatesProcessed(th) = Len(th.urls)
            /\ th.result = Some("completed")
       /\ job.status = "failed" => th.result = Some("failed")
       /\ IsSome(job.completed_at) <=> job.status \in TerminalStatus

C16_JobStep ==
    /\ \A j \in DOMAIN jobs :
         /\ j \in DOMAIN jobs'
         /\ jobs[j].status \in TerminalStatus => jobs'[j] = jobs[j]
         /\ jobs'[j].status # jobs[j].status =>
              <<jobs[j].status, jobs'[j].status>> \in
                  { <<"pending", "running">>, <<"running", "completed">>,
                    <<"running", "failed">>, <<"pending", "failed">> }
    /\ \A j \in DOMAIN jobs' \ DOMAIN jobs : jobs'[j].status = "pending"
    /\ \A t \in DOMAIN threads :
         threads[t].pc \in CandidatePcs /\ threads'[t] # threads[t] => jobs' = jobs

ThrownOutsideLoop(th) ==
    \/ th.brand_id \notin 1..Len(brands)
    \/ th.job = 0
    \/ <<"running">> \notin Range(th.log)
    \/ /\ <<"search">> \in Range(th.log)
       /\ CandidatesProcessed(th) = Len(th.urls)
       /\ <<"completed">> \notin Range(th.log)

C17_BatchState(th) ==
    /\ th.pc = "fail" \/ th.result = Some("failed") => ThrownOutsideLoop(th)
    /\ th.pc = "complete" \/ th.result = Some("completed") =>
         /\ CandidatesProcessed(th) = Len(th.urls)
         /\ \A i \in 1..Len(th.urls) :
              \E ok \in BOOLEAN : <<"candidate", i, ok>> \in Range(th.log)
    /\ th.result = Some("completed") =>
         /\ jobs[th.job].status = "completed"
         /\ jobs[th.job].competitors_found =
              Len(SelectSeq(th.log, LAMBDA e : e[1] = "candidate" /\ e[3]))

C17_BatchStep ==
    \A t \in DOMAIN threads :
        threads[t].pc \in CandidatePcs =>
            /\ threads'[t].pc \in CandidatePcs \cup {"complete"}
            /\ threads'[t].result = None
            /\ threads'[t].idx \in {threads[t].idx, threads[t].idx + 1}

\* C17: a step inside the loop over the candidates, raising or not, leads to
\* the next step of the loop or to the end of the loop, never to the failure
\* branch; a batch that reaches the end of the loop has processed every
\* candidate, and when it returns completed its job is completed; a batch
\* returns failed only when the brand is missing, the job was not created, or
\* a status write outside the loop raised.
C17_CandidateFailureIsolated ==
    /\ [](\A t \in DOMAIN threads : C17_BatchState(threads[t]))
    /\ [][C17_BatchStep]_vars

\* A batch returned completed although a candidate failed, and it processed a
\* later candidate with success.
C17_Witness ==
    \E t \in DOMAIN threads :
        /\ threads[t].result = Some("completed")
        /\ \E i \in 1..Len(threads[t].urls), k \in 1..Len(threads[t].urls) :
             /\ i < k
             /\ <<"candidate", i, FALSE>> \in Range(threads[t].log)
             /\ <<"candidate", k, TRUE>> \in Range(threads[t].log)

\* C18: no two rows of the competitor relation hold the same ordered pair
\* (brand_id, competitor_brand_id), also while two batches of one brand run
\* concurrently.
C18_PairRecordedOnce ==
    \A i \in DOMAIN relations, k \in DOMAIN relations :
        /\ relations[i].brand_id = relations[k].brand_id
        /\ relations[i].competitor_brand_id = relations[k].competitor_brand_id
        => i = k

\* The links the searches of the web answer with
SearchResultUrls(w) == UNION {Range(w.results[q].links) : q \in DOMAIN w.results}

\* C19: no row of the competitor relation has brand_id equal to
\* competitor_brand_id.
C19_NoSelfRelation ==
    \A i \in DOMAIN relations :
        relations[i].brand_id # relations[i].competitor_brand_id

\* The searches of a finished batch answered with the stored URL of its own
\* brand, as stored and with a trailing slash, and the batch related the
\* brand to a profile that was stored before the batch began.
C19_Witness ==
    \E t \in DOMAIN threads :
        LET th == threads[t]
        IN /\ th.result = Some("completed")
           /\ th.brand_id \in 1..2
           /\ brands[th.brand_id].website_url \in SearchResultUrls(web)
           /\ [brands[th.brand_id].website_url EXCEPT !.path = "/"]
                \in SearchResultUrls(web)
           /\ \E i \in DOMAIN relations :
                /\ relations[i].brand_id = th.brand_id
                /\ relations[i].competitor_brand_id \in 1..2

\* The child rows of brand id
ChildRowsOf(id) == SelectSeq(child_rows, LAMBDA r : r.brand_id = id)

C20_Stored ==
    /\ \A i \in DOMAIN brands, k \in DOMAIN brands :
         brands[i].website_url = brands[k].website_url => i = k
    /\ \A n \in DOMAIN child_rows : child_rows[n].brand_id \in DOMAIN brands
    /\ \A i \in DOMAIN brands :
         \E t \in DOMAIN threads :
             /\ threads[t].pc = "saved"
             /\ threads[t].competitor = i
             /\ brands[i] = BrandRow(Get(threads[t].data))
             /\ ChildRowsOf(i) = ChildRows(i, Get(threads[t].data))

C20_RaisedSave ==
    \A t \in DOMAIN threads' :
        /\ threads'[t].pc = "raised"
        /\ t \in DOMAIN threads => threads[t].pc # "raised"
        => UNCHANGED dbVars

\* C20: no two brand rows have the same website_url; every child row belongs
\* to a brand row; the columns and the child rows of each brand are exactly
\* those of one committed save of its URL, nothing of an earlier save being
\* left; a save that raises leaves every table as it was.
C20_UrlIsUniqueKey ==
    /\ []C20_Stored
    /\ [][C20_RaisedSave]_vars

\* A profile was saved for a URL that had a record with other FAQs, and a
\* save has raised.
C20_Witness ==
    \E t1 \in DOMAIN threads, t2 \in DOMAIN threads, t3 \in DOMAIN threads :
        /\ threads[t1].pc = "saved" /\ threads[t2].pc = "saved"
        /\ threads[t1].competitor = threads[t2].competitor
        /\ Get(threads[t1].data).faqs # Get(threads[t2].data).faqs
        /\ Get(threads[t1].data).faqs # <<>>
        /\ Get(threads[t2].data).faqs # <<>>
        /\ threads[t3].pc = "raised"

----------------------------------------------------------------------------
(* Further properties of find_competitors *)

\* The first max candidates with distinct domains, the domain of a URL being
\* its host, lower-cased and without a leading "www."
RECURSIVE FirstOfEachDomain(_, _, _, _)
FirstOfEachDomain(urls, seen, acc, max) ==
    IF urls = <<>> THEN acc
    ELSE IF DomainOfHost(Head(urls)) \notin seen /\ Len(acc) < max
    THEN FirstOfEachDomain(Tail(urls), seen \cup {DomainOfHost(Head(urls))},
                           Append(acc, Head(urls)), max)
    ELSE FirstOfEachDomain(Tail(urls), seen, acc, max)

\* C21: no two returned URLs have the same domain, and the returned list is
\* the validated candidates in their order (query results, then content
\* results) reduced to the first of each domain and cut at max_competitors.
C21_UniqueDomainsInOrder ==
    cpc = "returned" =>
        /\ \A i \in DOMAIN Get(cresult), k \in DOMAIN Get(cresult) :
             DomainOfHost(Get(cresult)[i]) = DomainOfHost(Get(cresult)[k]) => i = k
        /\ Get(cresult) = FirstOfEachDomain(cleaned, {}, <<>>, max_competitors)

\* C22: once the candidates are validated, a candidate was sent a GET exactly
\* when its HEAD did not answer with a status below 400 (an error status or a
\* transport error), and it is kept exactly when the HEAD or the GET answers
\* with a status below 400.
C22_HeadThenGetFallback ==
    cpc \in {"unique", "returned"} =>
        \A i \in DOMAIN competitors :
            LET u == CleanUrl(competitors[i])
                r == web.reach[u.name]
            IN /\ <<"get", u>> \in Range(clog) <=> r.head # "ok"
               /\ u \in Range(cleaned) <=> (r.head = "ok" \/ r.get = "ok")

----------------------------------------------------------------------------
(* Further properties of scrape_store *)

\* What the strategies yield when the first non-empty result wins: the name
\* of the first element found whose name is not empty, else the domain name.
FirstNonEmptyName(elems, base) ==
    LET good == {i \in 1..Len(elems) :
                    IsSome(elems[i]) /\ ElementName(Get(elems[i])) # ""}
    IN IF good = {} THEN Some(DomainFallback(base))
       ELSE Some(ElementName(Get(elems[CHOOSE k \in good : \A j \in good : k <= j])))

\* C23: once the brand name is extracted it is the result of the first
\* strategy, in selector order, that yields a non-empty name (the domain-name
\* fallback when none does), and it is never the empty string.
C23_FirstNonEmptyStrategyWins ==
    site.home_ok /\ pc \notin {"idle", "start", "brand_name"} =>
        /\ brand_context.brand_name = FirstNonEmptyName(site.brand, base_url)
        /\ brand_context.brand_name # Some("")

\* Is the policy the one of the first passing candidate of the whole
\* candidate list (the well-known paths, then the matching anchors), with
\* every candidate up to it fetched and none after it; and is it absent only
\* when no candidate of the list passes?
FirstPassingOfAll(type, anchors, policy) ==
    LET cands == PolicyLinks(type, anchors)
        good  == {i \in 1..Len(cands) : PolicyAccepts(PageOf(site, cands[i]))}
    IN IF good = {} THEN policy = None
       ELSE LET k == CHOOSE i \in good : \A j \in good : i <= j
            IN /\ IsSome(policy)
               /\ Get(policy).url = cands[k]
               /\ \A j \in 1..k : <<"policy", cands[j]>> \in Range(requests)
               /\ \A j \in (k + 1)..Len(cands) :
                    cands[j] \notin {cands[i] : i \in 1..k} =>
                        <<"policy", cands[j]>> \notin Range(requests)

\* C24: when the run has returned, each policy is the one of the first
\* passing candidate of its whole candidate list, the candidates before it
\* were fetched, no candidate after it was, and a policy is absent only when
\* no candidate of the list passes.
C24_FirstPassingCandidate ==
    (pc = "returned" /\ Get(result).extraction_status = "success") =>
        /\ FirstPassingOfAll("privacy", site.privacy_anchors,
                             Get(result).privacy_policy)
        /\ FirstPassingOfAll("return", site.return_anchors,
                             Get(result).return_refund_policy)

----------------------------------------------------------------------------
(* Properties of the search loop of find_competitors *)

\* The search requests sent so far, in order
SearchesSent == SelectSeq(clog, LAMBDA e : e[1] = "search")

\* The running total of kept links after the first q queries
KeptAfter(q) ==
    Len(Concat([i \in 1..q |-> SearchCompetitors(web.results[i], source)]))

\* C25: the search requests are those of the queries 1, 2, ... in template
\* order; a query after the first is sent only while the running total of
\* kept links is below max_competitors, and the loop is left only when the
\* total has reached it or the four queries are sent; a search request that
\* is followed by another one is followed by the delay first.
C25_QueriesInOrderUntilEnough ==
    /\ \A i \in DOMAIN SearchesSent : SearchesSent[i] = <<"search", i>>
    /\ Len(SearchesSent) <= NumQueries
    /\ \A i \in DOMAIN SearchesSent : i > 1 => KeptAfter(i - 1) < max_competitors
    /\ cpc \notin {"idle", "search"} =>
         \/ Len(SearchesSent) = NumQueries
         \/ KeptAfter(Len(SearchesSent)) >= max_competitors
    /\ \A n \in DOMAIN clog, m \in DOMAIN clog :
         n < m /\ clog[n][1] = "search" /\ clog[m][1] = "search" =>
             clog[n + 1][1] = "sleep"

\* The second query brought the total to the maximum: two requests were
\* sent with the delay between them, and the two other queries were not.
C25_Witness ==
    /\ cpc = "returned"
    /\ max_competitors >= 1
    /\ Len(SearchesSent) = 2
    /\ KeptAfter(1) < max_competitors
    /\ KeptAfter(2) >= max_competitors
    /\ clog[2] = <<"sleep", 1>>

----------------------------------------------------------------------------
(* Properties of the pagination loop *)

\* Does the endpoint answer page p with fewer than PageSize products, with a
\* missing or empty products array, or with an error?
StopPage(p) ==
    LET r == Response(site.endpoint, p)
    IN ~r.ok \/ r.products = None \/ Len(Get(r.products)) < PageSize

\* The products of the pages 1..n, in page order
ProductsOfPages(n) ==
    Concat([p \in 1..n |-> PageProducts(PageEntries(site.endpoint, p), p)])

\* C26: the loop has ended exactly when the endpoint has answered with a
\* stop page: it ended on the first stop page, with the products of every
\* earlier page at the head of the catalog; while it runs no stop page has
\* been answered; against an endpoint without a stop page it does not end.
C26_EndsExactlyOnStopPage ==
    LET n == Len(CatalogRequests)
    IN /\ CatalogDone =>
            /\ n >= 1
            /\ StopPage(n)
            /\ \A p \in 1..(n - 1) : ~StopPage(p)
            /\ Take(products, Len(ProductsOfPages(n - 1))) = ProductsOfPages(n - 1)
       /\ site.home_ok /\ pc = "catalog" => \A p \in 1..n : ~StopPage(p)
       /\ site.endpoint.last = "endless" => ~CatalogDone

----------------------------------------------------------------------------
(* Properties of the order of a run *)

\* The steps of scrape_store in their order
StepOrder ==
    << "start", "brand_name", "catalog", "hero", "privacy", "return", "faqs",
       "social", "contact", "about", "links", "returned" >>

StepIndex(step) == CHOOSE i \in DOMAIN StepOrder : StepOrder[i] = step

\* The first step whose extractor sends requests of the kind
StepOfRequest(kind) ==
    CASE kind = "homepage" -> "start"
      [] kind = "catalog"  -> "catalog"
      [] kind = "product"  -> "hero"
      [] kind = "policy"   -> "privacy"
      [] kind = "faq"      -> "faqs"
      [] kind = "contact"  -> "contact"
      [] kind = "about"    -> "about"

\* The homepage fetch comes first and once, and the requests of the
\* extractors follow in the order of the extractors.
RequestsInStepOrder ==
    /\ pc \notin {"idle", "start"} => requests # <<>>
    /\ requests # <<>> => requests[1][1] = "homepage"
    /\ \A i \in 2..Len(requests) : requests[i][1] # "homepage"
    /\ \A i \in DOMAIN requests, k \in DOMAIN requests :
         i < k => StepIndex(StepOfRequest(requests[i][1]))
                    <= StepIndex(StepOfRequest(requests[k][1]))
    /\ \A i \in DOMAIN requests :
         pc # "idle" => StepIndex(StepOfRequest(requests[i][1])) <= StepIndex(pc)

\* A run whose homepage fetch fails returns the error profile after that one
\* request.
FetchFailedGivesError ==
    pc = "returned" /\ ~site.home_ok =>
        /\ Get(result).extraction_status = "error"
        /\ Len(requests) = 1

\* C27: the homepage fetch is the first request and the only one of its
\* kind, the requests of the extractors follow in the fixed order of the
\* extractors, a run whose homepage was fetched ends with status success,
\* and a run whose homepage fetch failed ends with status error after that
\* single request.
C27_FixedOrderOfRun ==
    /\ RequestsInStepOrder
    /\ FetchFailedGivesError
    /\ pc = "returned" /\ site.home_ok => Get(result).extraction_status = "success"

----------------------------------------------------------------------------
(* Further properties of analyze_competitors_for_brand *)

\* The id of the stored profile of the storefront of a candidate URL, 0 when
\* there is none: a profile is stored under the URL without trailing slash.
StoredProfileOf(u) == GetBrandByUrl(brands, RstripSlash(u))

\* The candidate a thread is at
CandidateOf(th) == th.urls[th.idx]

\* C28: the lookup of a candidate whose storefront has a stored profile never
\* leads to a fresh extraction; when it succeeds the candidate is related to
\* that profile.
C28_StoredProfileNotExtractedAgain ==
    [][\A t \in DOMAIN threads :
          /\ threads[t].pc = "lookup"
          /\ threads'[t] # threads[t]
          /\ StoredProfileOf(CandidateOf(threads[t])) # 0
          => /\ threads'[t].pc # "scrape"
             /\ threads'[t].pc = "relate" =>
                  threads'[t].competitor = StoredProfileOf(CandidateOf(threads[t]))]_vars

\* C29: no profile with status error is stored, no relation points to such a
\* profile, and competitors_found of a job never exceeds the batch maximum.
C29_FailedExtractionSkipped ==
    /\ \A i \in DOMAIN brands : brands[i].extraction_status # "error"
    /\ \A n \in DOMAIN relations :
         brands[relations[n].competitor_brand_id].extraction_status # "error"
    /\ \A j \in DOMAIN jobs : jobs[j].competitors_found <= BatchMaxCompetitors

\* C30: once a call has returned, the job it had set to running is completed
\* or failed; no other call writes that job, so a job left running at the
\* return stays running forever.
C30_RunningJobReachesTerminal ==
    \A t \in DOMAIN threads :
        /\ threads[t].pc = "returned"
        /\ <<"running">> \in Range(threads[t].log)
        => jobs[threads[t].job].status \in TerminalStatus
====
